---- MODULE Spec2Model ----
(***************************************************************************)
(* Model of the in-memory Store of socialdemo-backend                      *)
(* (src/internal/store/store.go, src/internal/store/profile.go).           *)
(*                                                                         *)
(* Go strings that are only compared for equality (ids, names) are TLA+    *)
(* strings.  Go strings that are normalised (tags) are sequences of        *)
(* one-character strings, so that ToLower and TrimSpace are computed.      *)
(* A Go map is a function whose DOMAIN is the set of keys present.         *)
(* A Go *string is a sequence: <<>> is nil, <<s>> points to s.             *)
(* createdAt is the number of seconds of the RFC3339 UTC string written by *)
(* nowISO; these strings have a fixed width, so Go's string comparison     *)
(* orders them as the numbers are ordered.                                 *)
(***************************************************************************)
EXTENDS Integers, Sequences, FiniteSets, TLC

VARIABLES posts, postLikes, profiles, tags, friends, boards, conversations, messages,
          ret, mu, tpc, tloc

\* the boards and the direct messages
dmVars == <<boards, conversations, messages>>
storeVars == <<posts, postLikes, profiles, tags, friends, dmVars>>
threadVars == <<mu, tpc, tloc>>
vars == <<posts, postLikes, profiles, tags, friends, boards, conversations, messages,
          ret, mu, tpc, tloc>>

\* ------------------------------------------------------------------ bounds
\* the longest post list the read-only specification draws
MaxListLen == 3
\* AddTag is not called for a user who has this many tags
MaxTags == 2
\* the concurrent post requests create no post while the list is this long
MaxPosts == 2

\* ------------------------------------------------------------------ inputs
Users == {"u1", "u2"}
PostIds == {"p1", "p2"}
Boards == {"b1"}
Threads == {"t1", "t2"}

\* ------------------------------------------------------------- Go helpers
Range(s) == {s[i] : i \in 1..Len(s)}

\* a Go map lookup that yields the zero value (a nil set) on a missing key
LikeSet(likes, id) == IF id \in DOMAIN likes THEN likes[id] ELSE {}

\* m[k] = v on a Go map
MapPut(m, k, v) == [x \in DOMAIN m \cup {k} |-> IF x = k THEN v ELSE m[x]]

ToLowerCh(c) == IF c = "A" THEN "a" ELSE IF c = "B" THEN "b" ELSE c

ToLower(s) == [i \in 1..Len(s) |-> ToLowerCh(s[i])]

RECURSIVE TrimLeft(_)
TrimLeft(s) == IF s # <<>> /\ Head(s) = " " THEN TrimLeft(Tail(s)) ELSE s

RECURSIVE TrimRight(_)
TrimRight(s) ==
    IF s # <<>> /\ s[Len(s)] = " " THEN TrimRight(SubSeq(s, 1, Len(s) - 1)) ELSE s

TrimSpace(s) == TrimRight(TrimLeft(s))

normalizeTag(t) == TrimSpace(ToLower(t))

\* ------------------------------------------------------------ DisplayName
\* DisplayName that takes any nickname that is present, an empty one too
DisplayNameAnyNickname(uid) ==
    IF uid \in DOMAIN profiles
    THEN LET p == profiles[uid] IN
         IF p.nickname # <<>> THEN p.nickname[1]
         ELSE IF p.name # "" THEN p.name
         ELSE uid
    ELSE uid

DisplayName(uid) ==
    IF uid \in DOMAIN profiles
    THEN LET p == profiles[uid] IN
         IF p.nickname # <<>> /\ p.nickname[1] # "" THEN p.nickname[1]
         ELSE IF p.name # "" THEN p.name
         ELSE uid
    ELSE uid

\* ------------------------------------------------------------ Decorate
\* cp.Author.Name = s.DisplayName(cp.Author.ID) when the id is not empty
ResolveUser(u) == IF u.id # "" THEN [u EXCEPT !.name = DisplayName(u.id)] ELSE u

ResolveComments(cs) ==
    [i \in 1..Len(cs) |-> [cs[i] EXCEPT !.author = ResolveUser(cs[i].author)]]

\* Decorate without the recomputation of the like fields
DecorateKeepsStored(p, viewerUID) ==
    [p EXCEPT !.author = ResolveUser(p.author),
              !.comments = ResolveComments(p.comments)]

\* the value Decorate returns
Decorate(p, viewerUID) ==
    LET set == LikeSet(postLikes, p.id) IN
    [p EXCEPT !.author = ResolveUser(p.author),
              !.comments = ResolveComments(p.comments),
              !.likeCount = Cardinality(set),
              !.likedByMe = viewerUID \in set]

\* cp := p copies the struct but not the array behind p.Comments: the writes
\* cp.Comments[i].Author.Name = ... land in the array of the post handed in
Aliased(p) == [p EXCEPT !.comments = ResolveComments(p.comments)]

\* ------------------------------------------------------------ sort.Slice
PermsOf(n) == {f \in [1..n -> 1..n] : \A i, j \in 1..n : i # j => f[i] # f[j]}

\* sort.Slice(out, less): every arrangement of out that is ordered by less.
\* The library does not promise the order of elements that less does not
\* separate (sort.Slice is documented as not stable).
\* the hot comparator without its tie-break
lessHotNoTieBreak(a, b) == a.likeCount > b.likeCount

lessHot(a, b) ==
    IF a.likeCount = b.likeCount THEN a.createdAt > b.createdAt
    ELSE a.likeCount > b.likeCount

\* the comparator turned round
lessOldestFirst(a, b) == a.createdAt < b.createdAt

lessNew(a, b) == a.createdAt > b.createdAt

\* The timestamps of conversations are kept as strings, because the code
\* parses them: "T1" < "T2" < "T3" are RFC3339 instants, "" is an absent
\* one and any other string does not parse.  0 is the zero time.Time.
parseISO(s) == IF s = "T1" THEN 1 ELSE IF s = "T2" THEN 2 ELSE IF s = "T3" THEN 3 ELSE 0

\* a comparator that never falls back to createdAt
lessConvNoFallback(a, b) == parseISO(a.lastMessageAt) > parseISO(b.lastMessageAt)

\* ListConversationsFor: ti is lastMessageAt parsed, or createdAt parsed when
\* that is the zero time; less is ti.After(tj)
lessConv(a, b) ==
    (IF parseISO(a.lastMessageAt) # 0 THEN parseISO(a.lastMessageAt)
     ELSE parseISO(a.createdAt))
    > (IF parseISO(b.lastMessageAt) # 0 THEN parseISO(b.lastMessageAt)
       ELSE parseISO(b.createdAt))

\* ListMessages: parseISO(createdAt) of the one Before that of the other
lessMsg(a, b) == parseISO(a.createdAt) < parseISO(b.createdAt)

\* the less function handed to sort.Slice: List's for a tab,
\* ListConversationsFor's under "conv" and ListMessages' under "msg"
Less(tab, a, b) ==
    IF tab = "hot" THEN lessHot(a, b)
    ELSE IF tab = "conv" THEN lessConv(a, b)
    ELSE IF tab = "msg" THEN lessMsg(a, b)
    ELSE lessNew(a, b)

SortSlice(s, tab) ==
    {[i \in 1..Len(s) |-> s[f[i]]] :
        f \in {g \in PermsOf(Len(s)) :
                 \A i, j \in 1..Len(s) : i < j => ~Less(tab, s[g[j]], s[g[i]])}}

\* ---------------------------------------------------------------- filters
\* List: tagset[strings.ToLower(strings.TrimSpace(t))] for every t
ListTagSet(ts) == {ToLower(TrimSpace(t)) : t \in Range(ts)}

\* ListByAuthors, ListByBoard: the same, skipping entries that trim to ""
TagSetNonEmpty(ts) == ListTagSet(ts) \ {<<>>}

HasTag(p, tagset) == \E i \in 1..Len(p.tags) : ToLower(p.tags[i]) \in tagset

KeepList(p, ts) == Len(ts) = 0 \/ HasTag(p, ListTagSet(ts))

KeepAuthors(p, authors, ts) ==
    /\ p.author.id \in (Range(authors) \ {""})
    /\ TagSetNonEmpty(ts) = {} \/ HasTag(p, TagSetNonEmpty(ts))

KeepBoard(p, boardID, ts) ==
    /\ p.boardId = boardID
    /\ TagSetNonEmpty(ts) = {} \/ HasTag(p, TagSetNonEmpty(ts))

KeepUser(p, uid) == p.author.id = uid

\* a list call: which operation, and its filter arguments
Query(kind, who, ts) == [kind |-> kind, who |-> who, ts |-> ts]

Keep(q, p) ==
    CASE q.kind = "List" -> KeepList(p, q.ts)
      [] q.kind = "UserPosts" -> KeepUser(p, q.who)
      [] q.kind = "ListByAuthors" -> KeepAuthors(p, q.who, q.ts)
      [] q.kind = "ListByBoard" -> KeepBoard(p, q.who, q.ts)

\* the decorated copies of the kept posts, in stored order
DecorateKept(q, viewerUID) ==
    LET base == SelectSeq(posts, LAMBDA p : Keep(q, p)) IN
    [i \in 1..Len(base) |-> Decorate(base[i], viewerUID)]

\* the stored list after the kept posts went through Decorate
PostsAfterDecorate(q) ==
    [i \in 1..Len(posts) |-> IF Keep(q, posts[i]) THEN Aliased(posts[i]) ELSE posts[i]]

\* a Go map's values in some order of iteration
SeqOf(S) == CHOOSE f \in [1..Cardinality(S) -> S] : \A x \in S : \E i \in DOMAIN f : f[i] = x

\* the Go string spelled by a sequence of characters
RECURSIVE Str(_)
Str(cs) == IF cs = <<>> THEN "" ELSE Head(cs) \o Str(Tail(cs))

\* newID: fmt.Sprintf("%s_%d", prefix, time.Now().UTC().UnixNano())
newID(prefix, nano) == prefix \o "_" \o ToString(nano)

\* ------------------------------------------------------------------- ret
\* what the last call was given and what it returned.  History kept for the
\* checks: before is the like-set a ToggleLike found, twice says that the call
\* before it was the same ToggleLike, and origin is the like-set that one found;
\* prev is the profile an UpsertProfile found (<<>> when there was none)
NoRet ==
    [op |-> "", tab |-> "", viewer |-> "", post |-> "", uid |-> "", idx |-> -1,
     filter |-> <<>>, out |-> <<>>, isNil |-> FALSE, found |-> FALSE, before |-> {},
     twice |-> FALSE, origin |-> {}, tag |-> <<>>, target |-> "", name |-> "",
     arg |-> <<>>, prev |-> <<>>]

\* ------------------------------------------------------------ operations
List(tab, ts, viewerUID) ==
    /\ \E out \in SortSlice(DecorateKept(Query("List", "", ts), viewerUID), tab) :
          ret' = [NoRet EXCEPT !.op = "List", !.tab = tab, !.viewer = viewerUID,
                               !.filter = ts, !.out = out]
    /\ posts' = PostsAfterDecorate(Query("List", "", ts))
    /\ UNCHANGED <<postLikes, profiles, tags, friends, threadVars, dmVars>>

UserPosts(uid, viewerUID) ==
    /\ \E out \in SortSlice(DecorateKept(Query("UserPosts", uid, <<>>), viewerUID), "") :
          ret' = [NoRet EXCEPT !.op = "UserPosts", !.viewer = viewerUID, !.uid = uid,
                               !.out = out, !.isNil = (out = <<>>)]
    /\ posts' = PostsAfterDecorate(Query("UserPosts", uid, <<>>))
    /\ UNCHANGED <<postLikes, profiles, tags, friends, threadVars, dmVars>>

ListByAuthors(authors, ts, viewerUID) ==
    /\ \E out \in SortSlice(DecorateKept(Query("ListByAuthors", authors, ts), viewerUID), "") :
          ret' = [NoRet EXCEPT !.op = "ListByAuthors", !.viewer = viewerUID,
                               !.filter = ts, !.out = out]
    /\ posts' = PostsAfterDecorate(Query("ListByAuthors", authors, ts))
    /\ UNCHANGED <<postLikes, profiles, tags, friends, threadVars, dmVars>>

ListByBoard(boardID, ts, viewerUID) ==
    /\ IF boardID = ""
       THEN /\ ret' = [NoRet EXCEPT !.op = "ListByBoard", !.viewer = viewerUID,
                                    !.filter = ts, !.isNil = TRUE]
            /\ posts' = posts
       ELSE /\ \E out \in SortSlice(DecorateKept(Query("ListByBoard", boardID, ts),
                                                 viewerUID), "") :
                  ret' = [NoRet EXCEPT !.op = "ListByBoard", !.viewer = viewerUID,
                                       !.filter = ts, !.out = out]
            /\ posts' = PostsAfterDecorate(Query("ListByBoard", boardID, ts))
    /\ UNCHANGED <<postLikes, profiles, tags, friends, threadVars, dmVars>>

\* a handler's s.Decorate(p, uid) on the post p that Create, UpdateAt or
\* ToggleLike just returned: p shares its comment array with the stored post
DecorateCall(viewerUID) ==
    /\ ret.op \in {"Create", "UpdateAt", "ToggleLike"}
    /\ ret.out # <<>>
    /\ ret' = [NoRet EXCEPT !.op = "Decorate", !.viewer = viewerUID,
                            !.post = ret.out[1].id,
                            !.out = <<Decorate(ret.out[1], viewerUID)>>]
    /\ posts' = [i \in 1..Len(posts) |->
                    IF posts[i].id = ret.out[1].id THEN Aliased(posts[i]) ELSE posts[i]]
    /\ UNCHANGED <<postLikes, profiles, tags, friends, threadVars, dmVars>>

Create(p) ==
    /\ posts' = <<p>> \o posts
    /\ ret' = [NoRet EXCEPT !.op = "Create", !.post = p.id, !.out = <<p>>]
    /\ UNCHANGED <<postLikes, profiles, tags, friends, threadVars, dmVars>>

\* the index ByID returns: the first match, -1 on a miss (0-based)
IndexOf(id) ==
    IF \E i \in 1..Len(posts) : posts[i].id = id
    THEN (CHOOSE i \in 1..Len(posts) :
            posts[i].id = id /\ \A j \in 1..(i - 1) : posts[j].id # id) - 1
    ELSE -1

ByID(id) ==
    /\ ret' = [NoRet EXCEPT !.op = "ByID", !.post = id, !.idx = IndexOf(id),
                            !.found = (IndexOf(id) >= 0),
                            !.out = IF IndexOf(id) >= 0 THEN <<posts[IndexOf(id) + 1]>>
                                    ELSE <<>>]
    /\ UNCHANGED <<storeVars, threadVars>>

UpdateAt(i, p) ==
    /\ i \in 0..(Len(posts) - 1)
    /\ posts' = [posts EXCEPT ![i + 1] = p]
    /\ ret' = [NoRet EXCEPT !.op = "UpdateAt", !.post = p.id, !.idx = i, !.out = <<p>>]
    /\ UNCHANGED <<postLikes, profiles, tags, friends, threadVars, dmVars>>

DeleteAt(i) ==
    /\ i \in 0..(Len(posts) - 1)
    /\ posts' = SubSeq(posts, 1, i) \o SubSeq(posts, i + 2, Len(posts))
    /\ ret' = [NoRet EXCEPT !.op = "DeleteAt", !.idx = i]
    /\ UNCHANGED <<postLikes, profiles, tags, friends, threadVars, dmVars>>

\* a toggle that only ever adds
FlipAddsOnly(set, uid) == set \cup {uid}

\* the flip of uid in a like-set
Flip(set, uid) == IF uid \in set THEN set \ {uid} ELSE set \cup {uid}

\* a ToggleLike that flips the like-set before it looks for the post
ToggleLikeBeforeLookup(postID, uid) ==
    LET idx == IndexOf(postID)
        set == Flip(LikeSet(postLikes, postID), uid)
    IN /\ postLikes' = MapPut(postLikes, postID, set)
       /\ posts' = IF idx < 0 THEN posts
                   ELSE [posts EXCEPT ![idx + 1].likeCount = Cardinality(set),
                                      ![idx + 1].likedByMe = uid \in set]
       /\ ret' = [NoRet EXCEPT !.op = "ToggleLike", !.post = postID, !.uid = uid,
                               !.idx = idx, !.found = (idx >= 0),
                               !.out = IF idx < 0 THEN <<>> ELSE <<posts'[idx + 1]>>,
                               !.before = LikeSet(postLikes, postID)]
       /\ UNCHANGED <<profiles, tags, friends, threadVars, dmVars>>

ToggleLike(postID, uid) ==
    LET idx == IndexOf(postID) IN
    IF idx < 0
    THEN /\ ret' = [NoRet EXCEPT !.op = "ToggleLike", !.post = postID, !.uid = uid]
         /\ UNCHANGED <<storeVars, threadVars>>
    ELSE LET set == Flip(LikeSet(postLikes, postID), uid)
             p == [posts[idx + 1] EXCEPT !.likeCount = Cardinality(set),
                                         !.likedByMe = uid \in set]
         IN /\ postLikes' = MapPut(postLikes, postID, set)
            /\ posts' = [posts EXCEPT ![idx + 1] = p]
            /\ ret' = [NoRet EXCEPT !.op = "ToggleLike", !.post = postID, !.uid = uid,
                                    !.idx = idx, !.found = TRUE, !.out = <<p>>,
                                    !.before = LikeSet(postLikes, postID),
                                    !.twice = (/\ ret.op = "ToggleLike" /\ ret.found
                                               /\ ret.post = postID /\ ret.uid = uid),
                                    !.origin = ret.before]
            /\ UNCHANGED <<profiles, tags, friends, threadVars, dmVars>>

\* ------------------------------------------------- the sequential store
\* a post as a handler or a loaded snapshot hands it to the store; the handlers
\* build the embedded users as User{ID, Name}, without an avatar.  plain is
\* what the create handler builds; tagged has mixed-case tags and a board;
\* rich also carries a comment and like fields that no like-set backs; other
\* has a tag of its own
MkPost(id, author, at, kind) ==
    [id |-> id, author |-> [id |-> author, name |-> "stale", avatarUrl |-> <<>>],
     createdAt |-> at,
     likeCount |-> IF kind = "rich" THEN 5 ELSE 0, likedByMe |-> (kind = "rich"),
     comments |-> IF kind = "rich"
                  THEN <<[author |-> [id |-> "u1", name |-> "stale", avatarUrl |-> <<>>]]>>
                  ELSE <<>>,
     tags |-> IF kind = "plain" THEN <<<<"a">>>>
              ELSE IF kind = "other" THEN <<<<"c">>>>
              ELSE <<<<"A">>, <<" ", "b">>>>,
     boardId |-> IF kind = "plain" THEN "" ELSE "b1"]

AuthorOf(id) == IF id = "p2" THEN "u2" ELSE "u1"

PostInputs == {MkPost(id, AuthorOf(id), IF kind = "rich" THEN 2 ELSE 1, kind) :
                  id \in PostIds, kind \in {"plain", "rich"}}

\* a viewer who can like, and the anonymous viewer
Viewers == {"u1", ""}
\* no filter, and the filter ["A "]
TagFilters == {<<>>, <<<<"A", " ">>>>}
Tabs == {"hot", "new"}

\* the profile of the seeded user u1
SeedProfile ==
    [id |-> "u1", name |-> "Alice", nickname |-> <<"Ali">>, avatarUrl |-> <<>>,
     instagram |-> <<>>, facebook |-> <<>>, lineId |-> <<>>, birthday |-> "",
     showInstagram |-> FALSE, showFacebook |-> FALSE, showLine |-> FALSE]

NoThreads ==
    /\ mu = [w |-> "none", r |-> [t \in Threads |-> 0]]
    /\ tpc = [t \in Threads |-> "idle"]
    /\ tloc = [t \in Threads |-> NoRet]

Init ==
    /\ posts = <<>>
    /\ postLikes = <<>>
    /\ profiles = [u \in {"u1"} |-> SeedProfile]
    /\ tags = <<>>
    /\ friends = <<>>
    /\ boards = <<>>
    /\ conversations = <<>>
    /\ messages = <<>>
    /\ ret = NoRet
    /\ NoThreads

Next ==
    \/ \E p \in PostInputs :
         /\ \A i \in 1..Len(posts) : posts[i].id # p.id
         /\ Create(p)
    \/ \E i \in 0..(Len(posts) - 1), p \in PostInputs :
         /\ p.id = posts[i + 1].id
         /\ UpdateAt(i, p)
    \/ \E i \in 0..(Len(posts) - 1) : DeleteAt(i)
    \/ \E id \in PostIds, u \in Users : ToggleLike(id, u)
    \/ \E id \in PostIds : ByID(id)
    \/ \E tab \in Tabs, v \in Viewers : List(tab, <<>>, v)
    \/ \E u \in Users, v \in Viewers : UserPosts(u, v)
    \/ \E v \in Viewers : ListByAuthors(<<"u1", "u2">>, <<>>, v)
    \/ \E b \in Boards, v \in Viewers : ListByBoard(b, <<>>, v)
    \/ \E v \in Viewers : DecorateCall(v)

Spec == Init /\ [][Next]_vars

\* ------------------------------------------------ the store, read only
\* Init draws a store that Create and ToggleLike can build; the actions are the
\* list operations
ListIdSeq == <<"p1", "p2", "p3", "p4">>

ListIds == {ListIdSeq[i] : i \in 1..MaxListLen}

KindOf(id) == IF id = "p1" THEN "tagged" ELSE IF id = "p2" THEN "plain" ELSE "other"

ListPosts == {MkPost(id, AuthorOf(id), at, KindOf(id)) : id \in ListIds, at \in {1, 2}}

ListStores ==
    {ps \in UNION {[1..n -> ListPosts] : n \in 0..MaxListLen} :
        \A i, j \in 1..Len(ps) : i # j => ps[i].id # ps[j].id}

\* the like-sets drawn for a post: none or two likes for p1, none or one for
\* the others
LikeChoices(id) == IF id = "p1" THEN {{}, {"u1", "u2"}} ELSE {{}, {"u1"}}

InitList ==
    /\ posts \in ListStores
    /\ postLikes \in {f \in [{posts[i].id : i \in 1..Len(posts)} -> SUBSET Users] :
                        \A id \in DOMAIN f : f[id] \in LikeChoices(id)}
    /\ profiles = [u \in {"u1"} |-> SeedProfile]
    /\ tags = <<>>
    /\ friends = <<>>
    /\ boards = <<>>
    /\ conversations = <<>>
    /\ messages = <<>>
    /\ ret = NoRet
    /\ NoThreads

\* one list call on the drawn store
NextList ==
    \/ \E tab \in Tabs, ts \in TagFilters, v \in Viewers : ret = NoRet /\ List(tab, ts, v)
    \/ \E u \in Users, v \in Viewers : ret = NoRet /\ UserPosts(u, v)
    \/ \E as \in {<<"u1">>, <<"u1", "u2">>}, ts \in TagFilters, v \in Viewers :
         ret = NoRet /\ ListByAuthors(as, ts, v)
    \/ \E b \in Boards, ts \in TagFilters, v \in Viewers :
         ret = NoRet /\ ListByBoard(b, ts, v)

SpecList == InitList /\ [][NextList]_vars

\* ------------------------------------------------------------- likes (C1, C2)
DecoratingOps == {"Decorate", "List", "UserPosts", "ListByAuthors", "ListByBoard"}

\* the stored post with this id (the first, as ByID finds it)
Stored(id) == posts[IndexOf(id) + 1]

\* C1: every post a decoration returns carries likeCount = |like-set| and
\* likedByMe = (viewer in like-set), whatever the stored post holds.
C1_DecoratedLikes ==
    ret.op \in DecoratingOps =>
        \A i \in 1..Len(ret.out) :
            /\ ret.out[i].likeCount = Cardinality(LikeSet(postLikes, ret.out[i].id))
            /\ ret.out[i].likedByMe = (ret.viewer \in LikeSet(postLikes, ret.out[i].id))

\* a decoration returned a post whose stored like fields are both wrong for
\* the viewer
C1_Witness ==
    /\ ret.op \in DecoratingOps
    /\ \E i \in 1..Len(ret.out) :
          /\ Stored(ret.out[i].id).likeCount # ret.out[i].likeCount
          /\ Stored(ret.out[i].id).likedByMe # ret.out[i].likedByMe
          /\ LikeSet(postLikes, ret.out[i].id) # {}

\* C2: a ToggleLike(p, u) that directly follows a ToggleLike(p, u) leaves the
\* like-set of p as the first of the two found it, and returns the likeCount
\* and likedByMe that u had then.
C2_ToggleTwice ==
    (ret.op = "ToggleLike" /\ ret.found /\ ret.twice) =>
        /\ LikeSet(postLikes, ret.post) = ret.origin
        /\ ret.out[1].likeCount = Cardinality(ret.origin)
        /\ ret.out[1].likedByMe = (ret.uid \in ret.origin)

\* the second of two toggles in a row has returned, on a like-set that held
\* another user
C2_Witness ==
    /\ ret.op = "ToggleLike" /\ ret.found /\ ret.twice
    /\ ret.origin \ {ret.uid} # {}

\* ------------------------------------------------------------ s.mu
\* mu.w is the thread inside Lock()..Unlock(), mu.r[t] the RLock()s t holds
MuFree == mu.w = "none" /\ \A t \in Threads : mu.r[t] = 0

\* a Lock() that lets every caller in
CanLockAlways(t) == TRUE

\* s.mu.Lock() returns
CanLock(t) == MuFree

\* s.mu.RLock() returns: no writer is inside, and none is waiting in Lock()
\* (sync.RWMutex holds new readers back behind a waiting writer, so that the
\* writer is not starved)
CanRLock(t) == mu.w = "none" /\ \A o \in Threads : tpc[o] # "lock_wait"

\* ------------------------------------------- ToggleLike, step by step
\* the call: a thread enters ToggleLike(postID, uid)
ToggleCall(t, postID, uid) ==
    /\ tpc[t] = "idle"
    /\ tpc' = [tpc EXCEPT ![t] = "toggle_lock"]
    /\ tloc' = [tloc EXCEPT ![t] = [NoRet EXCEPT !.op = "ToggleLike", !.post = postID,
                                                  !.uid = uid]]
    /\ UNCHANGED <<storeVars, ret, mu>>

\* s.mu.Lock()
ToggleLock(t) ==
    /\ tpc[t] = "toggle_lock"
    /\ CanLock(t)
    /\ mu' = [mu EXCEPT !.w = t]
    /\ tpc' = [tpc EXCEPT ![t] = "toggle_find"]
    /\ UNCHANGED <<storeVars, ret, tloc>>

\* the search for the post, p := s.posts[idx] and set := s.postLikes[p.ID];
\* on a miss the call returns (Post{}, false)
ToggleFind(t) ==
    /\ tpc[t] = "toggle_find"
    /\ LET idx == IndexOf(tloc[t].post) IN
       IF idx < 0
       THEN /\ tpc' = [tpc EXCEPT ![t] = "done"]
            /\ mu' = [mu EXCEPT !.w = "none"]
            /\ UNCHANGED tloc
       ELSE /\ tpc' = [tpc EXCEPT ![t] = "toggle_flip"]
            /\ tloc' = [tloc EXCEPT ![t].idx = idx, ![t].found = TRUE,
                                    ![t].out = <<posts[idx + 1]>>,
                                    ![t].isNil = (tloc[t].post \notin DOMAIN postLikes)]
            /\ UNCHANGED mu
    /\ UNCHANGED <<storeVars, ret>>

\* the flip in set (a fresh map when set was nil, else the map the store
\* holds), s.postLikes[p.ID] = set, s.posts[idx] = p and the deferred Unlock()
ToggleFlip(t) ==
    /\ tpc[t] = "toggle_flip"
    /\ LET id == tloc[t].post
           uid == tloc[t].uid
           set == Flip(IF tloc[t].isNil THEN {} ELSE LikeSet(postLikes, id), uid)
           p == [tloc[t].out[1] EXCEPT !.likeCount = Cardinality(set),
                                       !.likedByMe = uid \in set]
       IN /\ postLikes' = MapPut(postLikes, id, set)
          /\ posts' = [posts EXCEPT ![tloc[t].idx + 1] = p]
          /\ tloc' = [tloc EXCEPT ![t].out = <<p>>]
    /\ mu' = [mu EXCEPT !.w = "none"]
    /\ tpc' = [tpc EXCEPT ![t] = "done"]
    /\ UNCHANGED <<profiles, tags, friends, ret, dmVars>>

InitLikeConc ==
    /\ posts \in {<<MkPost("p1", "u1", 1, "plain")>>,
                  <<MkPost("p2", "u2", 2, "plain"), MkPost("p1", "u1", 1, "plain")>>}
    /\ postLikes = <<>>
    /\ profiles = [u \in {"u1"} |-> SeedProfile]
    /\ tags = <<>>
    /\ friends = <<>>
    /\ boards = <<>>
    /\ conversations = <<>>
    /\ messages = <<>>
    /\ ret = NoRet
    /\ NoThreads

NextLikeConc ==
    \/ \E t \in Threads, id \in PostIds \cup {"gone"}, u \in Users : ToggleCall(t, id, u)
    \/ \E t \in Threads : ToggleLock(t)
    \/ \E t \in Threads : ToggleFind(t)
    \/ \E t \in Threads : ToggleFlip(t)

SpecLikeConc == InitLikeConc /\ [][NextLikeConc]_vars

\* C3: two ToggleLike calls on one post by two users, run concurrently on an
\* empty like-set, both land: the like-set holds both users and the stored
\* and the decorated likeCount are 2.
C3_BothTogglesLand ==
    \A a, b \in Threads :
        (/\ a # b /\ tpc[a] = "done" /\ tpc[b] = "done"
         /\ tloc[a].found /\ tloc[b].found
         /\ tloc[a].post = tloc[b].post /\ tloc[a].uid # tloc[b].uid) =>
            /\ LikeSet(postLikes, tloc[a].post) = {tloc[a].uid, tloc[b].uid}
            /\ Stored(tloc[a].post).likeCount = 2
            /\ Decorate(Stored(tloc[a].post), "").likeCount = 2

\* both calls have returned and both users are in the like-set
C3_Witness ==
    /\ tpc["t1"] = "done" /\ tpc["t2"] = "done"
    /\ tloc["t1"].found /\ tloc["t2"].found
    /\ tloc["t1"].post = tloc["t2"].post /\ tloc["t1"].uid # tloc["t2"].uid
    /\ Cardinality(LikeSet(postLikes, tloc["t1"].post)) = 2

\* ------------------------------------------------------------------ tags
\* s.tags[uid], nil when the key is missing
TagsOf(uid) == IF uid \in DOMAIN tags THEN tags[uid] ELSE <<>>

\* AddTag without the search for an equal entry
HasTagEntryNever(cur, t) == FALSE

\* the loop of AddTag over cur: is t already an entry
HasTagEntry(cur, t) == \E i \in 1..Len(cur) : cur[i] = t

\* AddTag: t := normalizeTag(tag) runs before any lock is taken; an empty t
\* turns the call into GetTags(uid)
AddTagCall(t, uid, tag) ==
    /\ tpc[t] = "idle"
    /\ Len(TagsOf(uid)) < MaxTags
    /\ tloc' = [tloc EXCEPT ![t] = [NoRet EXCEPT !.op = "AddTag", !.uid = uid,
                                                  !.tag = normalizeTag(tag)]]
    /\ tpc' = [tpc EXCEPT ![t] = IF normalizeTag(tag) = <<>> THEN "gettags"
                                 ELSE "addtag_lock"]
    /\ UNCHANGED <<storeVars, ret, mu>>

\* GetTags: RLock, a copy of s.tags[uid] (nil when there is none), RUnlock
GetTags(t) ==
    /\ tpc[t] = "gettags"
    /\ CanRLock(t)
    /\ ret' = [NoRet EXCEPT !.op = "GetTags", !.uid = tloc[t].uid, !.tag = tloc[t].tag,
                            !.out = TagsOf(tloc[t].uid),
                            !.isNil = (TagsOf(tloc[t].uid) = <<>>)]
    /\ tpc' = [tpc EXCEPT ![t] = "idle"]
    /\ tloc' = [tloc EXCEPT ![t] = NoRet]
    /\ UNCHANGED <<storeVars, mu>>

AddTagLock(t) ==
    /\ tpc[t] = "addtag_lock"
    /\ CanLock(t)
    /\ mu' = [mu EXCEPT !.w = t]
    /\ tpc' = [tpc EXCEPT ![t] = "addtag_body"]
    /\ UNCHANGED <<storeVars, ret, tloc>>

\* the body of AddTag under the lock, and the deferred Unlock
AddTagBody(t) ==
    /\ tpc[t] = "addtag_body"
    /\ LET uid == tloc[t].uid
           cur == TagsOf(uid)
       IN IF HasTagEntry(cur, tloc[t].tag)
          THEN /\ ret' = [NoRet EXCEPT !.op = "AddTag", !.uid = uid, !.tag = tloc[t].tag,
                                       !.out = cur]
               /\ tags' = tags
          ELSE /\ tags' = MapPut(tags, uid, Append(cur, tloc[t].tag))
               /\ ret' = [NoRet EXCEPT !.op = "AddTag", !.uid = uid, !.tag = tloc[t].tag,
                                       !.out = Append(cur, tloc[t].tag)]
    /\ mu' = [mu EXCEPT !.w = "none"]
    /\ tpc' = [tpc EXCEPT ![t] = "idle"]
    /\ tloc' = [tloc EXCEPT ![t] = NoRet]
    /\ UNCHANGED <<posts, postLikes, profiles, friends, dmVars>>

RemoveTagCall(t, uid, tag) ==
    /\ tpc[t] = "idle"
    /\ tloc' = [tloc EXCEPT ![t] = [NoRet EXCEPT !.op = "RemoveTag", !.uid = uid,
                                                  !.tag = normalizeTag(tag)]]
    /\ tpc' = [tpc EXCEPT ![t] = "removetag_lock"]
    /\ UNCHANGED <<storeVars, ret, mu>>

RemoveTagLock(t) ==
    /\ tpc[t] = "removetag_lock"
    /\ CanLock(t)
    /\ mu' = [mu EXCEPT !.w = t]
    /\ tpc' = [tpc EXCEPT ![t] = "removetag_body"]
    /\ UNCHANGED <<storeVars, ret, tloc>>

\* the body of RemoveTag under the lock: the entries other than t are kept
\* and stored under uid (a nil slice when none is left)
RemoveTagBody(t) ==
    /\ tpc[t] = "removetag_body"
    /\ LET uid == tloc[t].uid
           out == SelectSeq(TagsOf(uid), LAMBDA x : x # tloc[t].tag)
       IN /\ tags' = MapPut(tags, uid, out)
          /\ ret' = [NoRet EXCEPT !.op = "RemoveTag", !.uid = uid, !.tag = tloc[t].tag,
                                  !.out = out, !.isNil = (out = <<>>)]
    /\ mu' = [mu EXCEPT !.w = "none"]
    /\ tpc' = [tpc EXCEPT ![t] = "idle"]
    /\ tloc' = [tloc EXCEPT ![t] = NoRet]
    /\ UNCHANGED <<posts, postLikes, profiles, friends, dmVars>>

\* the tags a client sends: "", " ", "A", "a ", " A", "Ab", " b "
TagInputs ==
    {<<>>, <<" ">>, <<"A">>, <<"a", " ">>, <<" ", "A">>, <<"A", "b">>, <<" ", "b", " ">>}

TagUsers == {"u1"}

InitTags ==
    /\ posts = <<>>
    /\ postLikes = <<>>
    /\ profiles = <<>>
    /\ tags = <<>>
    /\ friends = <<>>
    /\ boards = <<>>
    /\ conversations = <<>>
    /\ messages = <<>>
    /\ ret = NoRet
    /\ NoThreads

NextTags ==
    \/ \E t \in Threads, u \in TagUsers, tag \in TagInputs : AddTagCall(t, u, tag)
    \/ \E t \in Threads : GetTags(t)
    \/ \E t \in Threads : AddTagLock(t)
    \/ \E t \in Threads : AddTagBody(t)
    \/ \E t \in Threads, u \in TagUsers, tag \in TagInputs : RemoveTagCall(t, u, tag)
    \/ \E t \in Threads : RemoveTagLock(t)
    \/ \E t \in Threads : RemoveTagBody(t)

SpecTags == InitTags /\ [][NextTags]_vars

\* a tag list holds trimmed lower-cased strings, none empty, none twice
CleanTagList(l) ==
    /\ \A i \in 1..Len(l) : l[i] # <<>> /\ l[i] = TrimSpace(l[i]) /\ l[i] = ToLower(l[i])
    /\ \A i, j \in 1..Len(l) : i # j => l[i] # l[j]

\* C7: from empty subscriptions, under every interleaving of AddTag and
\* RemoveTag, every user's tag list is clean, and an AddTag of a tag that is
\* an entry after normalisation leaves every list as it was.
C7_TagListsClean ==
    /\ [](\A u \in DOMAIN tags : CleanTagList(tags[u]))
    /\ [][\A t \in Threads :
            (/\ tpc[t] = "addtag_body" /\ tpc'[t] = "idle"
             /\ HasTagEntry(TagsOf(tloc[t].uid), tloc[t].tag)) => tags' = tags]_vars

\* an AddTag of a tag sent padded and in upper case returned the list it
\* found, which held the tag and another one
C7_Witness ==
    /\ ret.op = "AddTag"
    /\ Len(ret.out) = 2
    /\ HasTagEntry(ret.out, ret.tag)
    /\ ret.out = TagsOf(ret.uid)
    /\ \E t \in Threads : tpc[t] \in {"addtag_lock", "removetag_lock"}

\* --------------------------------------------------------------- friends
\* Follow with the uid == target test left out
FollowAcceptsSelf(uid, target) == uid # "" /\ target # ""

\* the guard of Follow: it returns at once unless this holds
FollowAccepts(uid, target) == uid # "" /\ target # "" /\ uid # target

\* the guard of Unfollow
UnfollowAccepts(uid, target) == uid # "" /\ target # ""

Follow(uid, target) ==
    /\ ret' = [NoRet EXCEPT !.op = "Follow", !.uid = uid, !.target = target]
    /\ IF FollowAccepts(uid, target)
       THEN friends' = MapPut(friends, uid,
                              (IF uid \in DOMAIN friends THEN friends[uid] ELSE {})
                                  \cup {target})
       ELSE friends' = friends
    /\ UNCHANGED <<posts, postLikes, profiles, tags, threadVars, dmVars>>

Unfollow(uid, target) ==
    /\ ret' = [NoRet EXCEPT !.op = "Unfollow", !.uid = uid, !.target = target]
    /\ IF UnfollowAccepts(uid, target) /\ uid \in DOMAIN friends
       THEN friends' = [friends EXCEPT ![uid] = @ \ {target}]
       ELSE friends' = friends
    /\ UNCHANGED <<posts, postLikes, profiles, tags, threadVars, dmVars>>

\* the ids a handler passes: the empty id and three users
FriendIds == {"", "u1", "u2", "u3"}

InitFriends ==
    /\ posts = <<>>
    /\ postLikes = <<>>
    /\ profiles = <<>>
    /\ tags = <<>>
    /\ friends = <<>>
    /\ boards = <<>>
    /\ conversations = <<>>
    /\ messages = <<>>
    /\ ret = NoRet
    /\ NoThreads

NextFriends ==
    \/ \E u \in FriendIds, target \in FriendIds : Follow(u, target)
    \/ \E u \in FriendIds, target \in FriendIds : Unfollow(u, target)

SpecFriends == InitFriends /\ [][NextFriends]_vars

\* C8: from an empty graph, no follow set holds its owner's id or the empty
\* id, and a Follow or Unfollow with an empty uid or target, or a Follow of
\* oneself, leaves the follow graph as it was.
C8_FollowGraph ==
    /\ [](\A u \in DOMAIN friends : u # "" /\ u \notin friends[u] /\ "" \notin friends[u])
    /\ [][(/\ ret'.op \in {"Follow", "Unfollow"}
           /\ \/ ret'.uid = "" \/ ret'.target = ""
              \/ ret'.op = "Follow" /\ ret'.uid = ret'.target) => friends' = friends]_vars

\* a Follow of oneself has returned, by a user who follows someone
C8_Witness ==
    /\ ret.op = "Follow" /\ ret.uid # "" /\ ret.uid = ret.target
    /\ ret.uid \in DOMAIN friends /\ friends[ret.uid] # {}

\* -------------------------------------------------------------- profiles
PointerFields == {"nickname", "avatarUrl", "instagram", "facebook", "lineId"}

\* a merge that lets a flag only be switched on
MergeKeepsTrueFlags(ex, p) ==
    [f \in DOMAIN ex |->
        IF f = "name" THEN (IF p.name # "" THEN p.name ELSE ex.name)
        ELSE IF f \in PointerFields THEN (IF p[f] # <<>> THEN p[f] ELSE ex[f])
        ELSE IF f \in {"showInstagram", "showFacebook", "showLine"} THEN (ex[f] \/ p[f])
        ELSE ex[f]]

\* a merge that also takes a birthday that is given
MergeTakesBirthday(ex, p) ==
    [f \in DOMAIN ex |->
        IF f = "name" THEN (IF p.name # "" THEN p.name ELSE ex.name)
        ELSE IF f \in PointerFields THEN (IF p[f] # <<>> THEN p[f] ELSE ex[f])
        ELSE IF f \in {"showInstagram", "showFacebook", "showLine"} THEN p[f]
        ELSE IF f = "birthday" THEN (IF p.birthday # "" THEN p.birthday ELSE ex.birthday)
        ELSE ex[f]]

\* the update branch of UpsertProfile: ex after the incoming p was applied
Merge(ex, p) ==
    [f \in DOMAIN ex |->
        IF f = "name" THEN (IF p.name # "" THEN p.name ELSE ex.name)
        ELSE IF f \in PointerFields THEN (IF p[f] # <<>> THEN p[f] ELSE ex[f])
        ELSE IF f \in {"showInstagram", "showFacebook", "showLine"} THEN p[f]
        ELSE ex[f]]

UpsertProfile(p) ==
    IF p.id = ""
    THEN /\ ret' = [NoRet EXCEPT !.op = "UpsertProfile", !.arg = <<p>>, !.out = <<p>>]
         /\ UNCHANGED <<storeVars, threadVars>>
    ELSE IF p.id \notin DOMAIN profiles
    THEN /\ profiles' = MapPut(profiles, p.id, p)
         /\ ret' = [NoRet EXCEPT !.op = "UpsertProfile", !.uid = p.id, !.arg = <<p>>,
                                 !.out = <<p>>]
         /\ UNCHANGED <<posts, postLikes, tags, friends, threadVars, dmVars>>
    ELSE /\ profiles' = [profiles EXCEPT ![p.id] = Merge(profiles[p.id], p)]
         /\ ret' = [NoRet EXCEPT !.op = "UpsertProfile", !.uid = p.id, !.arg = <<p>>,
                                 !.prev = <<profiles[p.id]>>,
                                 !.out = <<Merge(profiles[p.id], p)>>]
         /\ UNCHANGED <<posts, postLikes, tags, friends, threadVars, dmVars>>

\* a call of DisplayName by a handler
DisplayNameCall(uid) ==
    /\ ret' = [NoRet EXCEPT !.op = "DisplayName", !.uid = uid, !.name = DisplayName(uid)]
    /\ UNCHANGED <<storeVars, threadVars>>

MkProfile(id, name, ptrs, shows, birthday) ==
    [id |-> id, name |-> name, nickname |-> ptrs[1], avatarUrl |-> ptrs[2],
     instagram |-> ptrs[3], facebook |-> ptrs[4], lineId |-> ptrs[5],
     birthday |-> birthday, showInstagram |-> shows[1], showFacebook |-> shows[2],
     showLine |-> shows[3]]

\* the profiles a client sends: fields present and absent in several mixes,
\* an empty nickname, flags both ways, and one with an empty id
ProfileInputs ==
    {MkProfile("u1", "Al", <<<<"N1">>, <<"a1">>, <<"i1">>, <<>>, <<>>>>,
               <<TRUE, FALSE, TRUE>>, "b1"),
     MkProfile("u1", "", <<<<>>, <<>>, <<>>, <<>>, <<>>>>, <<FALSE, FALSE, FALSE>>, ""),
     MkProfile("u1", "Bo", <<<<"">>, <<>>, <<"i2">>, <<"f2">>, <<"l2">>>>,
               <<FALSE, TRUE, FALSE>>, "b2"),
     MkProfile("u1", "", <<<<"N2">>, <<"a2">>, <<>>, <<>>, <<"l3">>>>,
               <<TRUE, TRUE, TRUE>>, ""),
     MkProfile("u2", "", <<<<>>, <<>>, <<>>, <<>>, <<>>>>, <<FALSE, FALSE, FALSE>>, ""),
     MkProfile("u2", "Cy", <<<<"">>, <<>>, <<>>, <<"f1">>, <<>>>>,
               <<FALSE, FALSE, TRUE>>, ""),
     MkProfile("u2", "", <<<<"N3">>, <<>>, <<>>, <<>>, <<>>>>, <<TRUE, FALSE, FALSE>>, "b3"),
     MkProfile("", "X", <<<<"N4">>, <<>>, <<>>, <<>>, <<>>>>, <<TRUE, TRUE, TRUE>>, "")}

InitProfiles ==
    /\ posts = <<>>
    /\ postLikes = <<>>
    /\ profiles = <<>>
    /\ tags = <<>>
    /\ friends = <<>>
    /\ boards = <<>>
    /\ conversations = <<>>
    /\ messages = <<>>
    /\ ret = NoRet
    /\ NoThreads

NextProfiles ==
    \/ \E p \in ProfileInputs : UpsertProfile(p)
    \/ \E u \in {"u1", "u2", "u3"} : DisplayNameCall(u)

SpecProfiles == InitProfiles /\ [][NextProfiles]_vars

\* C9: UpsertProfile on an id that has a profile overwrites name only with a
\* non-empty name, each pointer field only when the incoming one is present,
\* and the three show flags always; on a new id it stores the incoming value.
C9_UpsertMerge ==
    (ret.op = "UpsertProfile" /\ ret.arg[1].id # "") =>
        LET p == ret.arg[1]
            now == profiles[p.id]
        IN IF ret.prev = <<>>
           THEN now = p /\ ret.out[1] = p
           ELSE LET ex == ret.prev[1] IN
                /\ now.name = (IF p.name # "" THEN p.name ELSE ex.name)
                /\ \A f \in PointerFields : now[f] = (IF p[f] # <<>> THEN p[f] ELSE ex[f])
                /\ now.showInstagram = p.showInstagram
                /\ now.showFacebook = p.showFacebook
                /\ now.showLine = p.showLine
                /\ ret.out[1] = now

\* an update with no name and no nickname that switched a flag off and kept
\* the name and the nickname
C9_Witness ==
    /\ ret.op = "UpsertProfile" /\ ret.prev # <<>>
    /\ ret.arg[1].name = "" /\ ret.arg[1].nickname = <<>>
    /\ ret.prev[1].showInstagram /\ ~profiles[ret.uid].showInstagram
    /\ profiles[ret.uid].nickname # <<>> /\ profiles[ret.uid].name # ""

\* C10: DisplayName returns the nickname when the profile has a non-empty one,
\* else the profile's name when non-empty, else the user id.
C10_DisplayName ==
    ret.op = "DisplayName" =>
        LET has == ret.uid \in DOMAIN profiles IN
        ret.name = IF has /\ profiles[ret.uid].nickname \notin {<<>>, <<"">>}
                   THEN profiles[ret.uid].nickname[1]
                   ELSE IF has /\ profiles[ret.uid].name # ""
                   THEN profiles[ret.uid].name
                   ELSE ret.uid

\* DisplayName passed over a nickname that is present and empty and returned
\* the name
C10_Witness ==
    /\ ret.op = "DisplayName" /\ ret.uid \in DOMAIN profiles
    /\ profiles[ret.uid].nickname = <<"">>
    /\ ret.name = profiles[ret.uid].name /\ ret.name # ""

\* ---------------------------------------------------------- order (C4-C6)
\* C4: List with tab "hot" returns posts non-increasing in likeCount and,
\* between neighbours of equal likeCount, non-increasing in createdAt.
C4_HotOrder ==
    (ret.op = "List" /\ ret.tab = "hot") =>
        \A i \in 1..(Len(ret.out) - 1) :
            /\ ret.out[i].likeCount >= ret.out[i + 1].likeCount
            /\ ret.out[i].likeCount = ret.out[i + 1].likeCount
                  => ret.out[i].createdAt >= ret.out[i + 1].createdAt

\* a hot list of three posts with a tie in likeCount, of posts stored the other
\* way round
C4_Witness ==
    /\ ret.op = "List" /\ ret.tab = "hot" /\ Len(ret.out) = 3
    /\ ret.out[1].likeCount > ret.out[2].likeCount
    /\ ret.out[2].likeCount = ret.out[3].likeCount
    /\ ret.out[2].createdAt > ret.out[3].createdAt
    /\ IndexOf(ret.out[3].id) < IndexOf(ret.out[2].id)
    /\ IndexOf(ret.out[2].id) < IndexOf(ret.out[1].id)

\* C5: List with another tab, UserPosts, ListByAuthors and ListByBoard return
\* posts non-increasing in createdAt, whatever the stored order.
C5_NewestFirst ==
    (\/ ret.op = "List" /\ ret.tab # "hot"
     \/ ret.op \in {"UserPosts", "ListByAuthors", "ListByBoard"}) =>
        \A i \in 1..(Len(ret.out) - 1) : ret.out[i].createdAt >= ret.out[i + 1].createdAt

\* one of the by-author or by-board lists returned two posts that are stored
\* oldest first
C5_Witness ==
    /\ ret.op \in {"UserPosts", "ListByAuthors", "ListByBoard"}
    /\ Len(ret.out) >= 2
    /\ ret.out[1].createdAt > ret.out[2].createdAt
    /\ IndexOf(ret.out[2].id) < IndexOf(ret.out[1].id)

\* the sort key of a returned post under the tab of the call
SameKey(tab, a, b) ==
    /\ a.createdAt = b.createdAt
    /\ tab = "hot" => a.likeCount = b.likeCount

C11_DecorateLeavesStore ==
    [][ret'.op \in DecoratingOps => posts' = posts]_vars

\* the store with profile edits between decorations: one post, and the
\* profile updates of its author
DecorProfiles == {p \in ProfileInputs : p.id = "u1"}

NextDecor ==
    \/ \E p \in PostInputs :
         /\ p.id = "p1"
         /\ posts = <<>>
         /\ Create(p)
    \/ \E p \in DecorProfiles : UpsertProfile(p)
    \/ \E v \in Viewers : List("", <<>>, v)
    \/ \E v \in Viewers : DecorateCall(v)

SpecDecor == Init /\ [][NextDecor]_vars

\* C12: in every post a decoration returns, the author's name and avatar, and
\* those of every comment author, are the ones the current profile of that
\* user id gives.
C12_ResolvedFromProfiles ==
    ret.op \in DecoratingOps =>
        LET avatarOf(uid) == IF uid \in DOMAIN profiles THEN profiles[uid].avatarUrl
                             ELSE <<>>
            resolved(u) == u.name = DisplayName(u.id) /\ u.avatarUrl = avatarOf(u.id)
        IN \A i \in 1..Len(ret.out) :
              /\ resolved(ret.out[i].author)
              /\ \A k \in 1..Len(ret.out[i].comments) :
                    resolved(ret.out[i].comments[k].author)

\* ------------------------------------------------- post handlers (C13, C14)
\* POST /posts: the post is built from the request and the token's uid, handed
\* to Create, and answered decorated.  id and at stand for the two clock reads
HandleCreatePost(uid, id, at, reqTags) ==
    LET p == [id |-> id,
              author |-> [id |-> uid, name |-> DisplayName(uid), avatarUrl |-> <<>>],
              createdAt |-> at, likeCount |-> 0, likedByMe |-> FALSE,
              comments |-> <<>>, tags |-> reqTags, boardId |-> ""]
    IN /\ posts' = <<p>> \o posts
       /\ ret' = [NoRet EXCEPT !.op = "HandleCreatePost", !.uid = uid, !.post = id,
                               !.filter = reqTags, !.found = TRUE,
                               !.out = <<Decorate(p, uid)>>]
       /\ UNCHANGED <<postLikes, profiles, tags, friends, threadVars, dmVars>>

\* PUT /posts/{id}: 404 when ByID misses, 403 when the caller is not the
\* author; else the request's tags replace the post's and UpdateAt stores it
HandleEditPost(uid, id, reqTags) ==
    LET idx == IndexOf(id) IN
    IF idx < 0 \/ posts[idx + 1].author.id # uid
    THEN /\ ret' = [NoRet EXCEPT !.op = "HandleEditPost", !.uid = uid, !.post = id,
                                 !.filter = reqTags]
         /\ UNCHANGED <<storeVars, threadVars>>
    ELSE LET p == [posts[idx + 1] EXCEPT !.tags = reqTags] IN
         /\ posts' = [posts EXCEPT ![idx + 1] = Aliased(p)]
         /\ ret' = [NoRet EXCEPT !.op = "HandleEditPost", !.uid = uid, !.post = id,
                                 !.filter = reqTags, !.idx = idx, !.found = TRUE,
                                 !.out = <<Decorate(p, uid)>>]
         /\ UNCHANGED <<postLikes, profiles, tags, friends, threadVars, dmVars>>

\* the tag lists of the requests: none, ["a"], and ["A", " B "]
ReqTagLists == {<<>>, <<<<"a">>>>, <<<<"A">>, <<" ", "B", " ">>>>}

\* the tags= query of GET /posts: none, ["B"], and ["a "]
ReqFilters == {<<>>, <<<<"B">>>>, <<<<"a", " ">>>>}

NextPostTags ==
    \/ \E u \in Users, id \in PostIds, reqTags \in ReqTagLists :
         /\ \A i \in 1..Len(posts) : posts[i].id # id
         /\ HandleCreatePost(u, id, Len(posts) + 1, reqTags)
    \/ \E u \in Users, id \in PostIds, reqTags \in ReqTagLists :
         HandleEditPost(u, id, reqTags)
    \/ \E ts \in ReqFilters, v \in Viewers : List("", ts, v)

SpecPostTags == Init /\ [][NextPostTags]_vars

\* C13: every tag of every stored post is trimmed and lower-cased, after a
\* creation and after every edit.
C13_StoredTagsNormalized ==
    \A i \in 1..Len(posts) :
        \A k \in 1..Len(posts[i].tags) : posts[i].tags[k] = normalizeTag(posts[i].tags[k])

\* C14: List with a non-empty tag filter returns exactly the posts of which
\* some tag equals some filter entry once both are trimmed and lower-cased.
C14_FilterMatchesNormalized ==
    (ret.op = "List" /\ ret.filter # <<>>) =>
        {ret.out[i].id : i \in 1..Len(ret.out)} =
            {posts[i].id : i \in {j \in 1..Len(posts) :
                \E t \in Range(posts[j].tags), f \in Range(ret.filter) :
                    normalizeTag(t) = normalizeTag(f)}}

\* ------------------------------------------------------ empty results (C15)
\* C15: a collection-returning operation that finds nothing returns an empty
\* collection, never an absent (nil) one.
C15_EmptyNotNil ==
    (/\ ret.op \in {"List", "UserPosts", "ListByAuthors", "ListByBoard", "GetTags",
                    "AddTag", "RemoveTag", "GetFriends", "ListBoardsFor",
                    "ListConversationsFor", "ListMessages"}
     /\ ret.out = <<>>) => ~ret.isNil

\* ---------------------------------------------------------------- boards
\* a listing that does not skip deleted boards
VisibleToKeepsDeleted(b, uid) == ~(b.isPrivate /\ b.ownerId # uid)

\* the boards ListBoardsFor keeps for uid
VisibleTo(b, uid) == ~b.deleted /\ ~(b.isPrivate /\ b.ownerId # uid)

\* Go ranges over the map in an unspecified order and then sorts
ListBoardsFor(uid) ==
    /\ \E out \in SortSlice(SeqOf({boards[id] : id \in {k \in DOMAIN boards :
                                                        VisibleTo(boards[k], uid)}}), "") :
          ret' = [NoRet EXCEPT !.op = "ListBoardsFor", !.viewer = uid, !.out = out]
    /\ UNCHANGED <<storeVars, threadVars>>

GetBoard(id) ==
    /\ ret' = [NoRet EXCEPT !.op = "GetBoard", !.post = id,
                            !.found = (id \in DOMAIN boards),
                            !.out = IF id \in DOMAIN boards THEN <<boards[id]>> ELSE <<>>,
                            !.prev = IF ret.op = "SaveBoard" /\ ret.out[1].id = id
                                     THEN ret.out ELSE <<>>]
    /\ UNCHANGED <<storeVars, threadVars>>

\* a SaveBoard that never fills in an id
WithIDKeepsEmpty(b, id) == b

\* if b.ID == "" { b.ID = newID("b") }
WithID(b, id) == IF b.id = "" THEN [b EXCEPT !.id = id] ELSE b

\* nano is the clock value newID reads
SaveBoard(b, nano) ==
    /\ boards' = MapPut(boards, WithID(b, newID("b", nano)).id, WithID(b, newID("b", nano)))
    /\ ret' = [NoRet EXCEPT !.op = "SaveBoard", !.arg = <<b>>,
                            !.prev = IF b.id \in DOMAIN boards THEN <<boards[b.id]>>
                                     ELSE <<>>,
                            !.out = <<WithID(b, newID("b", nano))>>]
    /\ UNCHANGED <<posts, postLikes, profiles, tags, friends, conversations, messages,
                   threadVars>>

MkBoard(id, owner, name, isPrivate, deleted, at) ==
    [id |-> id, name |-> name, description |-> "", ownerId |-> owner,
     moderatorIds |-> <<>>, isOfficial |-> FALSE, isPrivate |-> isPrivate,
     createdAt |-> at, updatedAt |-> at, deleted |-> deleted]

\* the boards handed to SaveBoard: new ones, as POST /boards builds them (empty
\* id, not deleted), and rewritten ones under the id b1
BoardInputs ==
    {MkBoard(id, owner, IF id = "" THEN "x" ELSE "y", flags[1], flags[2], at) :
        id \in {"", "b1"}, owner \in Users,
        flags \in {<<FALSE, FALSE>>, <<TRUE, FALSE>>, <<FALSE, TRUE>>}, at \in {1, 2}}
    \ {MkBoard("", owner, "x", FALSE, TRUE, at) : owner \in Users, at \in {1, 2}}

\* the clock values of newID
Nanos == {1, 2}

NextBoards ==
    \/ \E b \in BoardInputs, nano \in Nanos : SaveBoard(b, nano)
    \/ \E id \in {"b1", "b_1", "b_2"} : GetBoard(id)
    \/ \E u \in Users : ListBoardsFor(u)

\* from the empty store
SpecBoards == InitFriends /\ [][NextBoards]_vars

\* C16: ListBoardsFor(viewer) returns exactly the boards that are not deleted
\* and are public or owned by the viewer, each once, in non-increasing
\* createdAt order.
C16_ListBoardsFor ==
    ret.op = "ListBoardsFor" =>
        /\ Range(ret.out) = {boards[id] : id \in {k \in DOMAIN boards :
                                /\ ~boards[k].deleted
                                /\ ~boards[k].isPrivate \/ boards[k].ownerId = ret.viewer}}
        /\ \A i, j \in 1..Len(ret.out) : i # j => ret.out[i] # ret.out[j]
        /\ \A i, j \in 1..Len(ret.out) : i < j => ret.out[i].createdAt >= ret.out[j].createdAt

\* a listing returned two boards of different age and hid another one
C16_Witness ==
    /\ ret.op = "ListBoardsFor" /\ Len(ret.out) = 2
    /\ ret.out[1].createdAt > ret.out[2].createdAt
    /\ \E k \in DOMAIN boards : boards[k].isPrivate /\ boards[k].ownerId # ret.viewer

\* C17: SaveBoard with an empty id returns the board under a generated
\* non-empty id and stores it, so that a GetBoard with that id right after
\* finds an equal board; SaveBoard with a non-empty id stores exactly the
\* given board under that id, whatever was there.
C17_SaveBoard ==
    /\ ret.op = "SaveBoard" =>
          LET b == ret.arg[1]
              r == ret.out[1]
          IN /\ r.id # "" /\ r.id \in DOMAIN boards /\ boards[r.id] = r
             /\ IF b.id = "" THEN r = [b EXCEPT !.id = r.id] ELSE r = b
    /\ (ret.op = "GetBoard" /\ ret.prev # <<>>) => ret.found /\ ret.out = ret.prev

\* GetBoard has followed a SaveBoard that generated the id, in a store that
\* holds a rewritten board as well
C17_Witness ==
    /\ ret.op = "GetBoard" /\ ret.prev # <<>> /\ ret.prev[1].id = newID("b", 2)
    /\ "b1" \in DOMAIN boards /\ boards["b1"].deleted

\* ------------------------------------------------ board handlers (C18)
\* b.IsPrivate && b.OwnerID != uid, on the board stored under id
PrivateTo(id, uid) ==
    id \in DOMAIN boards /\ boards[id].isPrivate /\ boards[id].ownerId # uid

\* the two tests of the GET handlers on the board GetBoard returned
Servable(id, uid) == id \in DOMAIN boards /\ ~boards[id].deleted /\ ~PrivateTo(id, uid)

\* GET /boards/{id}: one GetBoard, the tests run on the copy it returned
HandleGetBoard(uid, id) ==
    /\ ret' = [NoRet EXCEPT !.op = "HandleGetBoard", !.viewer = uid, !.post = id,
                            !.found = Servable(id, uid),
                            !.out = IF Servable(id, uid) THEN <<boards[id]>> ELSE <<>>]
    /\ UNCHANGED <<storeVars, threadVars>>

\* GET /boards/{id}/posts, first half: GetBoard and the two tests; 404 and 403
\* end the request
BoardPostsCheck(t, uid, id) ==
    /\ tpc[t] = "idle"
    /\ IF Servable(id, uid)
       THEN /\ tpc' = [tpc EXCEPT ![t] = "boardposts_list"]
            /\ tloc' = [tloc EXCEPT ![t] = [NoRet EXCEPT !.op = "HandleBoardPosts",
                                                        !.viewer = uid, !.post = id]]
            /\ ret' = ret
       ELSE /\ ret' = [NoRet EXCEPT !.op = "HandleBoardPosts", !.viewer = uid, !.post = id]
            /\ UNCHANGED <<tpc, tloc>>
    /\ UNCHANGED <<storeVars, mu>>

\* second half: ListByBoard under a read lock of its own; the requests drawn
\* carry no tags, before or limit
BoardPostsList(t) ==
    /\ tpc[t] = "boardposts_list"
    /\ LET q == Query("ListByBoard", tloc[t].post, <<>>) IN
       /\ \E out \in SortSlice(DecorateKept(q, tloc[t].viewer), "") :
             ret' = [tloc[t] EXCEPT !.found = TRUE, !.out = out]
       /\ posts' = PostsAfterDecorate(q)
    /\ tpc' = [tpc EXCEPT ![t] = "idle"]
    /\ tloc' = [tloc EXCEPT ![t] = NoRet]
    /\ UNCHANGED <<postLikes, profiles, tags, friends, dmVars, mu>>

\* PATCH /boards/{id} without the owner comparison of boards.go:112
BoardPatchGetAnyone(t, uid, id, in, now) ==
    /\ tpc[t] = "idle"
    /\ IF id \in DOMAIN boards
       THEN /\ tpc' = [tpc EXCEPT ![t] = "boardpatch_save"]
            /\ tloc' = [tloc EXCEPT ![t] =
                 [NoRet EXCEPT !.op = "HandlePatchBoard", !.viewer = uid, !.post = id,
                     !.arg = <<[boards[id] EXCEPT
                         !.isPrivate = IF in.isPrivate # <<>> THEN in.isPrivate[1] ELSE @,
                         !.deleted = IF in.deleted # <<>> THEN in.deleted[1] ELSE @,
                         !.updatedAt = now]>>]]
            /\ ret' = ret
       ELSE /\ ret' = [NoRet EXCEPT !.op = "HandlePatchBoard", !.viewer = uid, !.post = id]
            /\ UNCHANGED <<tpc, tloc>>
    /\ UNCHANGED <<storeVars, mu>>

\* PATCH /boards/{id}, first half: GetBoard, 404 on a miss, 403 for a caller
\* who is not the owner, then the request's fields are applied to the copy.
\* The requests drawn leave name and description out
BoardPatchGet(t, uid, id, in, now) ==
    /\ tpc[t] = "idle"
    /\ IF id \in DOMAIN boards /\ boards[id].ownerId = uid
       THEN /\ tpc' = [tpc EXCEPT ![t] = "boardpatch_save"]
            /\ tloc' = [tloc EXCEPT ![t] =
                 [NoRet EXCEPT !.op = "HandlePatchBoard", !.viewer = uid, !.post = id,
                     !.arg = <<[boards[id] EXCEPT
                         !.isPrivate = IF in.isPrivate # <<>> THEN in.isPrivate[1] ELSE @,
                         !.deleted = IF in.deleted # <<>> THEN in.deleted[1] ELSE @,
                         !.updatedAt = now]>>]]
            /\ ret' = ret
       ELSE /\ ret' = [NoRet EXCEPT !.op = "HandlePatchBoard", !.viewer = uid, !.post = id]
            /\ UNCHANGED <<tpc, tloc>>
    /\ UNCHANGED <<storeVars, mu>>

\* second half: SaveBoard(b) with the patched copy, which has its id
BoardPatchSave(t) ==
    /\ tpc[t] = "boardpatch_save"
    /\ boards' = MapPut(boards, tloc[t].arg[1].id, tloc[t].arg[1])
    /\ ret' = [tloc[t] EXCEPT !.found = TRUE, !.out = tloc[t].arg]
    /\ tpc' = [tpc EXCEPT ![t] = "idle"]
    /\ tloc' = [tloc EXCEPT ![t] = NoRet]
    /\ UNCHANGED <<posts, postLikes, profiles, tags, friends, conversations, messages, mu>>

\* the patches drawn: make private, make public, delete, restore
PatchInputs ==
    {[isPrivate |-> <<TRUE>>, deleted |-> <<>>], [isPrivate |-> <<FALSE>>, deleted |-> <<>>],
     [isPrivate |-> <<>>, deleted |-> <<TRUE>>], [isPrivate |-> <<>>, deleted |-> <<FALSE>>]}

\* a loaded snapshot: the public board b1 of u1 with one post on it
InitBoardRace ==
    /\ posts = <<MkPost("p1", "u1", 1, "tagged")>>
    /\ postLikes = <<>>
    /\ profiles = [u \in {"u1"} |-> SeedProfile]
    /\ tags = <<>>
    /\ friends = <<>>
    /\ boards = [id \in {"b1"} |-> MkBoard("b1", "u1", "x", FALSE, FALSE, 1)]
    /\ conversations = <<>>
    /\ messages = <<>>
    /\ ret = NoRet
    /\ NoThreads

NextBoardRace ==
    \/ \E u \in Users, id \in Boards : HandleGetBoard(u, id)
    \/ \E u \in Users : ListBoardsFor(u)
    \/ \E t \in Threads, u \in Users, id \in Boards : BoardPostsCheck(t, u, id)
    \/ \E t \in Threads : BoardPostsList(t)
    \/ \E t \in Threads, u \in Users, id \in Boards, in \in PatchInputs :
         BoardPatchGet(t, u, id, in, 2)
    \/ \E t \in Threads : BoardPatchSave(t)

SpecBoardRace == InitBoardRace /\ [][NextBoardRace]_vars

\* C18: whatever the interleaving with board patches, a listing or read
\* answered to viewer v holds no board that is private and owned by someone
\* else at that moment, and no posts of such a board.
C18_PrivateBoardsHidden ==
    [][/\ ret'.op = "ListBoardsFor" =>
             \A i \in 1..Len(ret'.out) : ~PrivateTo(ret'.out[i].id, ret'.viewer)
       /\ (ret'.op = "HandleGetBoard" /\ ret'.found) => ~PrivateTo(ret'.post, ret'.viewer)
       /\ \A t \in Threads :
             (tpc[t] = "boardposts_list" /\ tpc'[t] = "idle" /\ ret'.out # <<>>)
                 => ~PrivateTo(ret'.post, ret'.viewer)]_vars

\* ---------------------------------------------------------- conversations
containsString(list, v) == \E i \in 1..Len(list) : list[i] = v

ListConversationsFor(uid) ==
    /\ \E out \in SortSlice(SeqOf({conversations[id] : id \in {k \in DOMAIN conversations :
                       containsString(conversations[k].memberIds, uid)}}), "conv") :
          ret' = [NoRet EXCEPT !.op = "ListConversationsFor", !.viewer = uid, !.out = out]
    /\ UNCHANGED <<storeVars, threadVars>>

\* nano is the clock value newID reads
SaveConversation(c, nano) ==
    /\ conversations' = MapPut(conversations, WithID(c, newID("c", nano)).id,
                               WithID(c, newID("c", nano)))
    /\ ret' = [NoRet EXCEPT !.op = "SaveConversation", !.arg = <<c>>,
                            !.out = <<WithID(c, newID("c", nano))>>]
    /\ UNCHANGED <<posts, postLikes, profiles, tags, friends, boards, messages, threadVars>>

MkConv(id, members, createdAt, lastMessageAt) ==
    [id |-> id, name |-> "", memberIds |-> members, createdAt |-> createdAt,
     lastMessageAt |-> lastMessageAt,
     lastMessagePreview |-> IF lastMessageAt = "" THEN "" ELSE "hi"]

\* conversations as a snapshot or a caller of the store hands them over: c1
\* of u1 and u2, c2 of u2 alone, with timestamps that parse, are absent, or
\* do not parse
ConvInputs ==
    {MkConv(id, IF id = "c1" THEN <<"u1", "u2">> ELSE <<"u2">>, created, last) :
        id \in {"c1", "c2"}, created \in {"bad", "T1", "T2"},
        last \in {"", "bad", "T1", "T3"}}

\* the loop at timeutil.go:63-75 over the requested ids: trimmed, the empty
\* ones and those already seen skipped, the others kept in order
RECURSIVE DedupMembers(_, _)
DedupMembers(ids, members) ==
    IF ids = <<>> THEN members
    ELSE LET m == Str(TrimSpace(Head(ids))) IN
         IF m = "" \/ containsString(members, m) THEN DedupMembers(Tail(ids), members)
         ELSE DedupMembers(Tail(ids), Append(members, m))

\* a handler that forgets to add the creator
MembersOfNoCreator(reqMembers, uid) == DedupMembers(reqMembers, <<>>)

\* the member list POST /conversations builds: [uid] for an empty request,
\* uid appended when no requested id trims to it, then the loop above
MembersOf(reqMembers, uid) ==
    LET in0 == IF Len(reqMembers) = 0 THEN <<<<uid>>>> ELSE reqMembers
        foundMe == \E i \in 1..Len(in0) : Str(TrimSpace(in0[i])) = uid
    IN DedupMembers(IF foundMe THEN in0 ELSE Append(in0, <<uid>>), <<>>)

\* POST /conversations by uid; now and nano are the clock reads of the handler
\* and of newID
HandleCreateConversation(uid, reqMembers, now, nano) ==
    LET c == [id |-> "", name |-> "", memberIds |-> MembersOf(reqMembers, uid),
              createdAt |-> now, lastMessageAt |-> "", lastMessagePreview |-> ""]
    IN /\ conversations' = MapPut(conversations, WithID(c, newID("c", nano)).id,
                                  WithID(c, newID("c", nano)))
       /\ ret' = [NoRet EXCEPT !.op = "HandleCreateConversation", !.uid = uid,
                               !.filter = reqMembers,
                               !.out = <<WithID(c, newID("c", nano))>>]
       /\ UNCHANGED <<posts, postLikes, profiles, tags, friends, boards, messages,
                      threadVars>>

\* requested member lists: none; u2; " u2", u2, u1; " ", u3, "u2 ", u3; "u1 ", u3
MemberLists ==
    {<<>>, <<<<"u2">>>>, <<<<" ", "u2">>, <<"u2">>, <<"u1">>>>,
     <<<<" ">>, <<"u3">>, <<"u2", " ">>, <<"u3">>>>, <<<<"u1", " ">>, <<"u3">>>>}

NextConvs ==
    \/ \E c \in ConvInputs : SaveConversation(c, 1)
    \/ \E u \in Users, ms \in MemberLists, now \in {"T1", "T2"} :
         HandleCreateConversation(u, ms, now, 1)
    \/ \E u \in Users : ListConversationsFor(u)

\* from the empty store
SpecConvs == InitFriends /\ [][NextConvs]_vars

\* C19 as stated: ListConversationsFor(m) returns exactly the conversations
\* with m among the members, in descending order of lastMessageAt when that
\* field is present and of createdAt otherwise, a timestamp that does not
\* parse counting as the zero instant.
C19_ConvOrderAsStated ==
    ret.op = "ListConversationsFor" =>
        LET stated(c) == IF c.lastMessageAt # "" THEN parseISO(c.lastMessageAt)
                         ELSE parseISO(c.createdAt)
        IN /\ Range(ret.out) = {conversations[id] : id \in {k \in DOMAIN conversations :
                                   ret.viewer \in Range(conversations[k].memberIds)}}
           /\ \A i, j \in 1..Len(ret.out) : i < j => stated(ret.out[i]) >= stated(ret.out[j])

\* C19 amended: the same, with the order taken by the instant of
\* lastMessageAt when it parses to a non-zero instant, and by the instant of
\* createdAt (zero when it does not parse, so last) in every other case.
C19_ConvOrder ==
    ret.op = "ListConversationsFor" =>
        LET key(c) == IF c.lastMessageAt \in {"T1", "T2", "T3"} THEN parseISO(c.lastMessageAt)
                      ELSE IF c.createdAt \in {"T1", "T2", "T3"} THEN parseISO(c.createdAt)
                      ELSE 0
        IN /\ Range(ret.out) = {conversations[id] : id \in {k \in DOMAIN conversations :
                                   ret.viewer \in Range(conversations[k].memberIds)}}
           /\ \A i, j \in 1..Len(ret.out) : i # j => ret.out[i] # ret.out[j]
           /\ \A i, j \in 1..Len(ret.out) : i < j => key(ret.out[i]) >= key(ret.out[j])

\* a listing of three conversations: one whose lastMessageAt does not parse
\* came first by its createdAt, one without any instant that parses came last
C19_Witness ==
    /\ ret.op = "ListConversationsFor" /\ Len(ret.out) = 3
    /\ ret.out[1].lastMessageAt = "bad" /\ ret.out[1].createdAt = "T2"
    /\ ret.out[2].lastMessageAt = "" /\ ret.out[2].createdAt = "T1"
    /\ ret.out[3].createdAt = "bad" /\ ret.out[3].lastMessageAt \in {"", "bad"}

\* C20: a conversation made by POST /conversations is stored with memberIds
\* that hold the creator, no empty id and no id twice, and the requested ids
\* (trimmed) in the order of their first occurrence.
C20_MemberIds ==
    ret.op = "HandleCreateConversation" =>
        LET m == conversations[ret.out[1].id].memberIds
            req == [i \in 1..Len(ret.filter) |-> Str(TrimSpace(ret.filter[i]))]
            first(seq, x) == CHOOSE i \in 1..Len(seq) :
                                 seq[i] = x /\ \A k \in 1..(i - 1) : seq[k] # x
        IN /\ ret.uid \in Range(m)
           /\ "" \notin Range(m)
           /\ \A i, j \in 1..Len(m) : i # j => m[i] # m[j]
           /\ Range(m) = (Range(req) \ {""}) \cup {ret.uid}
           /\ \A a, b \in Range(req) \ {""} :
                 first(req, a) < first(req, b) => first(m, a) < first(m, b)

\* the request " ", u3, "u2 ", u3 by u1 was stored as u3, u2, u1
C20_Witness ==
    /\ ret.op = "HandleCreateConversation" /\ ret.uid = "u1"
    /\ ret.filter = <<<<" ">>, <<"u3">>, <<"u2", " ">>, <<"u3">>>>
    /\ conversations[ret.out[1].id].memberIds = <<"u3", "u2", "u1">>

\* --------------------------------------------------------------- messages
\* a window that takes its bounds in
InWindowInclusive(mt, after, before) ==
    ~(after # 0 /\ mt < after) /\ ~(before # 0 /\ mt > before)

\* the two tests of ListMessages on the parsed createdAt mt: a bound that is
\* the zero time is not applied, the others are After and Before
InWindow(mt, after, before) ==
    ~(after # 0 /\ ~(mt > after)) /\ ~(before # 0 /\ ~(mt < before))

\* after and before are instants (0 the zero time.Time), limit an int
ListMessages(convID, after, before, limit) ==
    /\ \E msgs \in SortSlice(SeqOf({messages[k] : k \in {id \in DOMAIN messages :
                       /\ messages[id].conversationId = convID
                       /\ ~messages[id].deleted
                       /\ InWindow(parseISO(messages[id].createdAt), after, before)}}),
                   "msg") :
          ret' = [NoRet EXCEPT !.op = "ListMessages", !.post = convID,
                               !.arg = <<after, before, limit>>,
                               !.out = IF limit > 0 /\ Len(msgs) > limit
                                       THEN SubSeq(msgs, 1, limit) ELSE msgs]
    /\ UNCHANGED <<storeVars, threadVars>>

\* a SaveMessage that only moves lastMessageAt forward
TouchConversationForward(m) ==
    IF /\ m.conversationId \in DOMAIN conversations
       /\ parseISO(m.createdAt) > parseISO(conversations[m.conversationId].lastMessageAt)
    THEN LET c == [conversations[m.conversationId] EXCEPT
                      !.lastMessageAt = m.createdAt, !.lastMessagePreview = m.text]
         IN MapPut(conversations, c.id, c)
    ELSE conversations

\* a SaveMessage that makes the conversation a message names when it is
\* not stored
TouchConversationCreates(m) ==
    MapPut(conversations, m.conversationId,
           [id |-> m.conversationId, name |-> "", memberIds |-> <<m.senderId>>,
            createdAt |-> m.createdAt, lastMessageAt |-> m.createdAt,
            lastMessagePreview |-> m.text])

\* the conversation collection after SaveMessage stored m: the conversation
\* of m, when there is one, gets the createdAt of m and as preview the
\* text, or the placeholder of the type when the text is empty
TouchConversation(m) ==
    IF m.conversationId \in DOMAIN conversations
    THEN LET c == [conversations[m.conversationId] EXCEPT
                      !.lastMessageAt = m.createdAt,
                      !.lastMessagePreview =
                          IF m.text # "" THEN m.text
                          ELSE IF m.type = "miniCard" THEN "[Mini Card]"
                          ELSE IF m.type = "album" THEN "[Album]"
                          ELSE ""]
         IN MapPut(conversations, c.id, c)
    ELSE conversations

\* nano is the clock value newID reads
SaveMessage(m, nano) ==
    /\ messages' = MapPut(messages, WithID(m, newID("m", nano)).id,
                          WithID(m, newID("m", nano)))
    /\ conversations' = TouchConversation(m)
    /\ ret' = [NoRet EXCEPT !.op = "SaveMessage", !.arg = <<m>>,
                            !.out = <<WithID(m, newID("m", nano))>>]
    /\ UNCHANGED <<posts, postLikes, profiles, tags, friends, boards, threadVars>>

MkMsg(id, conv, type, text, createdAt, deleted) ==
    [id |-> id, conversationId |-> conv, senderId |-> "u1", type |-> type,
     text |-> text, createdAt |-> createdAt, deleted |-> deleted]

\* messages as callers hand them over: m1 a text at T1, m2 a mini card at T2,
\* live or soft-deleted, m3 an album at T3 or at an instant that does not
\* parse, in c1 or c2, and one without id, text or known type at T2, in c1 or
\* in cX, a conversation that is never stored
MsgInputs ==
    {MkMsg("m1", "c1", "text", "hi", "T1", FALSE)}
    \cup {MkMsg("m2", "c1", "miniCard", "", "T2", d) : d \in BOOLEAN}
    \cup {MkMsg("m3", c, "album", "", at, FALSE) : c \in {"c1", "c2"}, at \in {"T3", "bad"}}
    \cup {MkMsg("", c, "photo", "", "T2", FALSE) : c \in {"c1", "cX"}}

NextMsgs ==
    \/ \E c \in {x \in ConvInputs : x.createdAt = "T1" /\ x.lastMessageAt \in {"", "T3"}} :
         SaveConversation(c, 1)
    \/ \E m \in MsgInputs : SaveMessage(m, 1)
    \/ \E conv \in {"c1", "cX"}, after \in {0, 1}, before \in {0, 3}, limit \in {0, 1} :
         ListMessages(conv, after, before, limit)

\* from the empty store
SpecMsgs == InitFriends /\ [][NextMsgs]_vars

\* C21: ListMessages(conv, after, before, limit) returns, without a message
\* twice and in ascending order of createdAt, stored messages of conv that
\* are not deleted and lie strictly after `after` and strictly before `before`
\* (a zero bound is not given): all of them when limit is 0 or not exceeded,
\* else limit of them with none of the left-out ones older than a returned
\* one; the call leaves the message collection, deleted messages included,
\* as it was.
C21_ListMessages ==
    [][ret'.op = "ListMessages" =>
        LET after == ret'.arg[1]
            before == ret'.arg[2]
            limit == ret'.arg[3]
            out == ret'.out
            want == {messages[k] : k \in {id \in DOMAIN messages :
                        /\ messages[id].conversationId = ret'.post
                        /\ ~messages[id].deleted
                        /\ (after # 0 => parseISO(messages[id].createdAt) > after)
                        /\ (before # 0 => parseISO(messages[id].createdAt) < before)}}
        IN /\ messages' = messages
           /\ Range(out) \subseteq want
           /\ \A i, j \in 1..Len(out) : i # j => out[i] # out[j]
           /\ \A i, j \in 1..Len(out) :
                 i < j => parseISO(out[i].createdAt) <= parseISO(out[j].createdAt)
           /\ IF limit > 0 /\ Cardinality(want) > limit
              THEN /\ Len(out) = limit
                   /\ \A x \in Range(out), m \in want \ Range(out) :
                         parseISO(x.createdAt) <= parseISO(m.createdAt)
              ELSE Range(out) = want]_vars

\* of m1 at T1, a deleted m2, m3 at T3 and another message at T2, the call
\* with before = T3 and limit 1 returned m1 alone, and m2 is still stored
C21_Witness ==
    /\ ret.op = "ListMessages" /\ ret.post = "c1" /\ ret.arg = <<0, 3, 1>>
    /\ Len(ret.out) = 1 /\ ret.out[1].id = "m1"
    /\ {"m1", "m2", "m3", "m_1"} \subseteq DOMAIN messages
    /\ messages["m2"].deleted /\ messages["m2"].conversationId = "c1"
    /\ messages["m3"].createdAt = "T3" /\ messages["m3"].conversationId = "c1"
    /\ messages["m_1"].conversationId = "c1"

\* C22: a SaveMessage whose conversationId is that of a stored conversation
\* sets that conversation's lastMessageAt to the createdAt of the message,
\* whatever the previous value, and its lastMessagePreview to the text when
\* it is not empty, else "[Mini Card]" for a miniCard, "[Album]" for an
\* album, else ""; nothing else of that conversation and no other
\* conversation changes.
C22_SaveMessageTouches ==
    [][(ret'.op = "SaveMessage" /\ ret'.arg[1].conversationId \in DOMAIN conversations) =>
        LET m == ret'.arg[1]
            cid == m.conversationId
        IN /\ DOMAIN conversations' = DOMAIN conversations
           /\ \A k \in DOMAIN conversations \ {cid} : conversations'[k] = conversations[k]
           /\ conversations'[cid].lastMessageAt = m.createdAt
           /\ conversations'[cid].lastMessagePreview =
                 (IF m.text # "" THEN m.text
                  ELSE IF m.type = "miniCard" THEN "[Mini Card]"
                  ELSE IF m.type = "album" THEN "[Album]"
                  ELSE "")
           /\ conversations'[cid] =
                 [conversations[cid] EXCEPT
                     !.lastMessageAt = conversations'[cid].lastMessageAt,
                     !.lastMessagePreview = conversations'[cid].lastMessagePreview]]_vars

\* the text message m1 of T1 was saved into c1, whose last message was of T3,
\* next to a stored c2: c1 now shows T1 and "hi"
C22_Witness ==
    /\ ret.op = "SaveMessage" /\ ret.arg[1].id = "m1"
    /\ {"c1", "c2"} \subseteq DOMAIN conversations
    /\ conversations["c1"].lastMessageAt = "T1"
    /\ conversations["c1"].lastMessagePreview = "hi"
    /\ conversations["c2"].lastMessageAt = "T3"
    /\ "m3" \in DOMAIN messages /\ messages["m3"].conversationId = "c1"
    /\ messages["m3"].createdAt = "T3"

\* C30: a SaveMessage whose conversationId matches no stored conversation
\* stores the message in the message collection and leaves the conversation
\* collection as it was.
C30_OrphanMessage ==
    [][(ret'.op = "SaveMessage" /\ ret'.arg[1].conversationId \notin DOMAIN conversations) =>
        /\ conversations' = conversations
        /\ ret'.out[1].id \in DOMAIN messages'
        /\ messages'[ret'.out[1].id] = ret'.out[1]
        /\ ret'.out[1] = [ret'.arg[1] EXCEPT !.id = ret'.out[1].id]
        /\ ret'.out[1].id # ""
        /\ \A k \in DOMAIN messages \ {ret'.out[1].id} :
              k \in DOMAIN messages' /\ messages'[k] = messages[k]]_vars

\* a message for cX was stored under a generated id while c1 and c2, the
\* only conversations, kept their state
C30_Witness ==
    /\ ret.op = "SaveMessage" /\ ret.arg[1].conversationId = "cX"
    /\ "m_1" \in DOMAIN messages /\ messages["m_1"].conversationId = "cX"
    /\ DOMAIN conversations = {"c1", "c2"}

\* ------------------------------------ POST /conversations/{id}/messages
\* handleSendMessage up to the message it builds: the type defaults to
\* "text", GetConversation and the membership test answer 404 on a miss, and
\* now is the clock read that follows.  The clock does not run backwards:
\* now is not before any instant a request has read so far
SendCheck(t, uid, convID, in, now) ==
    /\ tpc[t] = "idle"
    /\ mu.w = "none"
    /\ \A o \in Threads : parseISO(now) >= parseISO(tloc[o].name)
    /\ IF /\ convID \in DOMAIN conversations
          /\ containsString(conversations[convID].memberIds, uid)
       THEN /\ tpc' = [tpc EXCEPT ![t] = "send_save"]
            /\ tloc' = [tloc EXCEPT ![t] =
                           [NoRet EXCEPT !.op = "handleSendMessage", !.name = now,
                               !.arg = <<[MkMsg("", convID,
                                                IF in.type = "" THEN "text" ELSE in.type,
                                                in.text, now, FALSE)
                                             EXCEPT !.senderId = uid]>>]]
       ELSE UNCHANGED <<tpc, tloc>>
    /\ UNCHANGED <<storeVars, ret, mu>>

\* m = app.Store.SaveMessage(m), from Lock() to Unlock(), and the answer; the
\* id is of a clock value newID has not returned before.  The snapshot
\* writes that follow leave the store as it is
SendSave(t) ==
    /\ tpc[t] = "send_save"
    /\ CanLock(t)
    /\ \E nano \in Nanos :
          /\ newID("m", nano) \notin DOMAIN messages
          /\ messages' = MapPut(messages, newID("m", nano),
                                WithID(tloc[t].arg[1], newID("m", nano)))
    /\ conversations' = TouchConversation(tloc[t].arg[1])
    /\ tpc' = [tpc EXCEPT ![t] = "idle"]
    /\ UNCHANGED <<posts, postLikes, profiles, tags, friends, boards, ret, mu, tloc>>

\* a loaded snapshot: the conversation c1 of u1 and u2, without messages
InitSendRace ==
    /\ posts = <<>>
    /\ postLikes = <<>>
    /\ profiles = <<>>
    /\ tags = <<>>
    /\ friends = <<>>
    /\ boards = <<>>
    /\ conversations = [id \in {"c1"} |-> MkConv("c1", <<"u1", "u2">>, "T1", "")]
    /\ messages = <<>>
    /\ ret = NoRet
    /\ NoThreads

NextSendRace ==
    \/ \E t \in Threads, u \in Users \cup {"u3"}, c \in {"c1", "cX"},
          in \in {[type |-> "", text |-> "hi"], [type |-> "album", text |-> ""]},
          now \in {"T1", "T2", "T3"} : SendCheck(t, u, c, in, now)
    \/ \E t \in Threads : SendSave(t)

SpecSendRace == InitSendRace /\ [][NextSendRace]_vars

\* C23: over any interleaving of message sends, each reading the clock for
\* its createdAt before it calls SaveMessage, the lastMessageAt of a
\* conversation never moves to an earlier instant, and once every send has
\* returned it is the greatest createdAt among the conversation's messages.
C23_OnlyForward ==
    [][\A c \in DOMAIN conversations :
          /\ parseISO(conversations'[c].lastMessageAt)
                >= parseISO(conversations[c].lastMessageAt)
          /\ (\A t \in Threads : tpc'[t] = "idle") =>
                \A k \in DOMAIN messages' :
                   messages'[k].conversationId = c =>
                      parseISO(messages'[k].createdAt)
                         <= parseISO(conversations'[c].lastMessageAt)]_vars

\* ------------------------------------------ POST /posts/{id}/like, the rest
\* after ToggleLike returned: 404 on a miss, else SaveLikes, which takes no
\* lock, starts to marshal s.postLikes
LikeSaveBegin(t) ==
    /\ tpc[t] = "done"
    /\ tpc' = [tpc EXCEPT ![t] = IF tloc[t].found THEN "save_likes" ELSE "idle"]
    /\ tloc' = [tloc EXCEPT ![t] = IF tloc[t].found THEN @ ELSE NoRet]
    /\ UNCHANGED <<storeVars, ret, mu>>

\* the snapshot is written; Decorate and the answer
LikeAnswer(t) ==
    /\ tpc[t] = "save_likes"
    /\ tpc' = [tpc EXCEPT ![t] = "idle"]
    /\ ret' = [NoRet EXCEPT !.op = "HandleLike", !.viewer = tloc[t].uid,
                            !.post = tloc[t].post,
                            !.out = <<Decorate(tloc[t].out[1], tloc[t].uid)>>]
    /\ tloc' = [tloc EXCEPT ![t] = NoRet]
    /\ UNCHANGED <<storeVars, mu>>

NextLikeSave ==
    \/ NextLikeConc
    \/ \E t \in Threads : LikeSaveBegin(t)
    \/ \E t \in Threads : LikeAnswer(t)

SpecLikeSave == InitLikeConc /\ [][NextLikeSave]_vars

\* C24: no thread reads or writes a collection while another thread is
\* writing it: while a thread is between Lock() and Unlock() of ToggleLike,
\* which writes s.postLikes, no other thread is inside SaveLikes reading it.
C24_NoRacingAccess ==
    \A t, o \in Threads :
        (t # o /\ tpc[t] = "save_likes") => ~(mu.w = o /\ tpc[o] = "toggle_flip")

\* -------------------------------------------- List and Create, lock by lock
\* List up to its loop: s.mu.RLock() returned, the deferred RUnlock is pending
ListRLock(t, tab, viewerUID) ==
    /\ tpc[t] = "idle"
    /\ CanRLock(t)
    /\ mu' = [mu EXCEPT !.r[t] = 1]
    /\ tpc' = [tpc EXCEPT ![t] = "list_decorate"]
    /\ tloc' = [tloc EXCEPT ![t] = [NoRet EXCEPT !.op = "List", !.tab = tab,
                                                  !.viewer = viewerUID]]
    /\ UNCHANGED <<storeVars, ret>>

\* the rest of List: Decorate of every post, whose DisplayName and like-set
\* read call s.mu.RLock() again while List holds it, the sort, and RUnlock
ListDecorate(t) ==
    /\ tpc[t] = "list_decorate"
    /\ posts = <<>> \/ CanRLock(t)
    /\ \E out \in SortSlice(DecorateKept(Query("List", "", <<>>), tloc[t].viewer),
                            tloc[t].tab) :
          ret' = [tloc[t] EXCEPT !.out = out]
    /\ posts' = PostsAfterDecorate(Query("List", "", <<>>))
    /\ mu' = [mu EXCEPT !.r[t] = 0]
    /\ tpc' = [tpc EXCEPT ![t] = "idle"]
    /\ tloc' = [tloc EXCEPT ![t] = NoRet]
    /\ UNCHANGED <<postLikes, profiles, tags, friends, dmVars>>

\* Create calls s.mu.Lock(): one writer at a time gets to wait for the
\* readers to leave
CreateLockCall(t, p) ==
    /\ tpc[t] = "idle"
    /\ Len(posts) < MaxListLen
    /\ mu.w = "none" /\ \A o \in Threads : tpc[o] # "lock_wait"
    /\ tpc' = [tpc EXCEPT ![t] = "lock_wait"]
    /\ tloc' = [tloc EXCEPT ![t] = [NoRet EXCEPT !.op = "Create", !.arg = <<p>>]]
    /\ UNCHANGED <<storeVars, ret, mu>>

\* Lock() returns, the post is put in front, Unlock()
CreateRun(t) ==
    /\ tpc[t] = "lock_wait"
    /\ CanLock(t)
    /\ posts' = <<tloc[t].arg[1]>> \o posts
    /\ ret' = [NoRet EXCEPT !.op = "Create", !.post = tloc[t].arg[1].id,
                            !.out = tloc[t].arg]
    /\ tpc' = [tpc EXCEPT ![t] = "idle"]
    /\ tloc' = [tloc EXCEPT ![t] = NoRet]
    /\ UNCHANGED <<postLikes, profiles, tags, friends, dmVars, mu>>

NextListLock ==
    \/ \E t \in Threads, tab \in Tabs, v \in Viewers : ListRLock(t, tab, v)
    \/ \E t \in Threads : ListDecorate(t)
    \/ \E t \in Threads, p \in PostInputs : CreateLockCall(t, p)
    \/ \E t \in Threads : CreateRun(t)

\* every call that has started keeps being scheduled
SpecListLock ==
    /\ InitLikeConc /\ [][NextListLock]_vars
    /\ \A t \in Threads : WF_vars(ListDecorate(t)) /\ WF_vars(CreateRun(t))

\* C25: under fair scheduling every operation that was called returns, also
\* a List that holds the shared lock and locks it again in Decorate while a
\* writer waits for the exclusive lock.
C25_EveryCallReturns ==
    \A t \in Threads : (tpc[t] # "idle") ~> (tpc[t] = "idle")

\* ------------------------------- PUT, DELETE /posts/{id} and POST comments
\* the handler up to its write: ByID, 404 on a miss, 403 for an edit or a
\* delete by another user than the author, and the post value to write
\* (comments are added while the post has fewer than MaxTags - 1 of them)
PostByID(t, kind, uid, id) ==
    /\ tpc[t] = "idle"
    /\ mu.w = "none"
    /\ IndexOf(id) >= 0
    /\ IF kind = "comment" THEN Len(posts[IndexOf(id) + 1].comments) < MaxTags - 1
       ELSE posts[IndexOf(id) + 1].author.id = uid
    /\ LET p == posts[IndexOf(id) + 1] IN
       tloc' = [tloc EXCEPT ![t] =
                   [NoRet EXCEPT !.op = kind, !.uid = uid, !.post = id,
                       !.idx = IndexOf(id),
                       !.out = IF kind = "edit" THEN <<[p EXCEPT !.tags = <<<<"e">>>>]>>
                               ELSE IF kind = "comment"
                               THEN <<[p EXCEPT !.comments = Append(@,
                                         [author |-> [id |-> uid, name |-> DisplayName(uid),
                                                      avatarUrl |-> <<>>]])]>>
                               ELSE <<>>]]
    /\ tpc' = [tpc EXCEPT ![t] = "post_write"]
    /\ UNCHANGED <<storeVars, ret, mu>>

\* UpdateAt(idx, p) or DeleteAt(idx) with the index ByID gave, from Lock() to
\* Unlock(); an index past the end of the list panics and the request ends
\* with the list as it was
PostWrite(t) ==
    /\ tpc[t] = "post_write"
    /\ CanLock(t)
    /\ posts' = IF tloc[t].idx >= Len(posts) THEN posts
                ELSE IF tloc[t].op = "delete"
                THEN SubSeq(posts, 1, tloc[t].idx) \o SubSeq(posts, tloc[t].idx + 2, Len(posts))
                ELSE [posts EXCEPT ![tloc[t].idx + 1] = tloc[t].out[1]]
    /\ tpc' = [tpc EXCEPT ![t] = "idle"]
    /\ tloc' = [tloc EXCEPT ![t] = NoRet]
    /\ UNCHANGED <<postLikes, profiles, tags, friends, dmVars, ret, mu>>

\* edits and deletes come from the author, comments from u2, likes from u1;
\* in flight at a time are one edit or comment, and one delete
NextPostRace ==
    \/ \E kind \in {"edit", "comment", "delete"}, id \in PostIds :
         PostByID(IF kind = "delete" THEN "t2" ELSE "t1", kind,
                  IF kind = "comment" THEN "u2" ELSE AuthorOf(id), id)
    \/ \E t \in Threads : PostWrite(t)
    \/ \E p \in {x \in PostInputs : x.comments = <<>>} :
         /\ Len(posts) < MaxPosts
         /\ \A i \in 1..Len(posts) : posts[i].id # p.id
         /\ Create(p)
    \/ ToggleLike("p1", "u1")

SpecPostRace == InitBoardRace /\ [][NextPostRace]_vars

\* C26: under any interleaving of post requests (create with a fresh id,
\* edit, comment, delete, like) no two entries of the post list have the
\* same id, and no post leaves the list but by a delete request for its id.
C26_UniqueAndComplete ==
    [][/\ \A i, j \in 1..Len(posts') : i # j => posts'[i].id # posts'[j].id
       /\ \A i \in 1..Len(posts) :
             \/ \E j \in 1..Len(posts') : posts'[j].id = posts[i].id
             \/ \E t \in Threads :
                   /\ tpc[t] = "post_write" /\ tpc'[t] = "idle"
                   /\ tloc[t].op = "delete" /\ tloc[t].post = posts[i].id]_vars

\* --------------------------------------------------------- snapshot files
\* LoadAll under the lock, given the five snapshot files, each with the
\* state "missing", "syntax" (not JSON) or "ok" and its data: readJSONFile
\* leaves the target as it is when the file cannot be read or is not JSON
\* (the error is dropped); otherwise
\* json.Unmarshal refills the post slice from the file and stores the file's
\* entries into the map that is there, keeping the other entries
LoadAll(f) ==
    LET slice(file, cur) == IF file.state = "ok" THEN file.data ELSE cur
        map(file, cur) ==
            IF file.state = "ok"
            THEN [k \in DOMAIN cur \cup DOMAIN file.data |->
                     IF k \in DOMAIN file.data THEN file.data[k] ELSE cur[k]]
            ELSE cur
    IN /\ posts' = slice(f.posts, posts)
       /\ tags' = map(f.tags, tags)
       /\ friends' = map(f.friends, friends)
       /\ profiles' = map(f.profiles, profiles)
       /\ postLikes' = map(f.likes, postLikes)
       /\ ret' = [NoRet EXCEPT !.op = "LoadAll", !.arg = <<f>>]
       /\ UNCHANGED <<dmVars, threadVars>>

\* the five files, each missing, not JSON, or the snapshot of a store with
\* the post p2, a tag and a friend of u2, the profile of u1 and a like of
\* p2; the files of tags, friends and profiles are in the same condition
LoadFiles ==
    LET kinds(data) == {[state |-> "missing", data |-> <<>>],
                        [state |-> "syntax", data |-> <<>>],
                        [state |-> "ok", data |-> data]}
    IN {f \in [posts : kinds(<<MkPost("p2", "u2", 2, "plain")>>),
               tags : kinds([u \in {"u2"} |-> <<<<"a">>>>]),
               friends : kinds([u \in {"u2"} |-> {"u1"}]),
               profiles : kinds([u \in {"u1"} |-> SeedProfile]),
               likes : kinds([p \in {"p2"} |-> {"u2"}])] :
           f.tags.state = f.friends.state /\ f.friends.state = f.profiles.state}

\* a SavePosts that hands the error of writeJSONFile on
SavePostsReports(werr) == [writes |-> 1, err |-> werr]

\* SavePosts: one call of writeJSONFile, whose error (werr, "" for none) is
\* assigned to _ ; writes is the number of write attempts, err what the
\* caller gets to see
SavePosts(werr) == [writes |-> 1, err |-> ""]

\* POST /posts: Create, SavePosts with the outcome werr of the write, and the
\* answer 200 with the decorated post
CreateThenSave(p, werr) ==
    /\ posts' = <<p>> \o posts
    /\ ret' = [NoRet EXCEPT !.op = "CreateThenSave", !.uid = p.author.id, !.post = p.id,
                            !.arg = <<werr>>, !.idx = SavePosts(werr).writes,
                            !.target = SavePosts(werr).err, !.name = "200",
                            !.out = <<Decorate(p, p.author.id)>>]
    /\ UNCHANGED <<postLikes, profiles, tags, friends, threadVars, dmVars>>

NextLoad ==
    \/ \E f \in LoadFiles : LoadAll(f)
    \/ \E p \in {x \in PostInputs : x.comments = <<>>}, werr \in {"", "marshal", "write"} :
         /\ Len(posts) < MaxPosts
         /\ \A i \in 1..Len(posts) : posts[i].id # p.id
         /\ CreateThenSave(p, werr)
    \/ Follow("u1", "u2")
    \/ ToggleLike("p1", "u1")

\* from the empty store NewStore makes
SpecLoad == InitFriends /\ [][NextLoad]_vars

\* C27: after a LoadAll a collection whose file is missing is empty and a
\* collection whose file is not JSON is as it was before the load; the load
\* returns in every case.
C27_TolerantLoad ==
    [][ret'.op = "LoadAll" =>
        LET f == ret'.arg[1] IN
        /\ f.posts.state = "missing" => posts' = <<>>
        /\ f.tags.state = "missing" => DOMAIN tags' = {}
        /\ f.friends.state = "missing" => DOMAIN friends' = {}
        /\ f.profiles.state = "missing" => DOMAIN profiles' = {}
        /\ f.likes.state = "missing" => DOMAIN postLikes' = {}
        /\ f.posts.state = "syntax" => posts' = posts
        /\ f.tags.state = "syntax" => tags' = tags
        /\ f.friends.state = "syntax" => friends' = friends
        /\ f.profiles.state = "syntax" => profiles' = profiles
        /\ f.likes.state = "syntax" => postLikes' = postLikes]_vars

\* C28: when the snapshot write of a save fails, the mutation made before it
\* stays, the caller gets what it gets when the write succeeds (no error,
\* the same answer), and the write is attempted once.
C28_WriteFailureUnseen ==
    [][ret'.op = "CreateThenSave" =>
        /\ Len(posts') = Len(posts) + 1
        /\ posts'[1].id = ret'.post
        /\ ret'.out = <<Decorate(posts'[1], ret'.uid)>>
        /\ ret'.name = "200"
        /\ ret'.target = ""
        /\ ret'.idx = 1]_vars

\* a POST /posts whose snapshot write failed was answered with the post, which
\* is in the list
C28_Witness ==
    /\ ret.op = "CreateThenSave" /\ ret.arg = <<"write">>
    /\ Len(posts) = 2 /\ posts[1].id = ret.post
    /\ ret.out # <<>> /\ ret.out[1].id = ret.post /\ ret.name = "200"

\* C29: a lookup that matches no post says so and changes nothing: ByID of
\* an id that no post has returns the index -1, and ToggleLike of such an id
\* returns found = false and leaves the post list and every like-set as they
\* were.
C29_MissChangesNothing ==
    [][(/\ ret'.op \in {"ByID", "ToggleLike"}
        /\ \A i \in 1..Len(posts) : posts[i].id # ret'.post) =>
           /\ ret'.idx = -1
           /\ ~ret'.found
           /\ ret'.out = <<>>
           /\ posts' = posts
           /\ postLikes' = postLikes]_vars

\* ToggleLike of p2 missed in a store that holds p1 with a like
C29_Witness ==
    /\ ret.op = "ToggleLike" /\ ret.post = "p2" /\ ~ret.found
    /\ Len(posts) = 1 /\ posts[1].id = "p1"
    /\ "p1" \in DOMAIN postLikes /\ postLikes["p1"] # {}
    /\ "p2" \notin DOMAIN postLikes

C32_GeneratedIdsFresh ==
    [][(ret'.op = "SaveBoard" /\ ret'.arg[1].id = "") =>
        /\ ret'.out[1].id \notin DOMAIN boards
        /\ Cardinality(DOMAIN boards') = Cardinality(DOMAIN boards) + 1
        /\ \A k \in DOMAIN boards : boards'[k] = boards[k]]_vars

\* C33: a board patch by a viewer who is not the board's owner (or for a
\* board that does not exist) is answered with an error and changes no
\* board; a patch goes on to SaveBoard only for the owner, and the SaveBoard
\* it reaches writes that board alone and keeps its owner.
C33_PatchOwnerOnly ==
    [][/\ (ret'.op = "HandlePatchBoard" /\ ~ret'.found /\ ret' # ret) =>
             /\ boards' = boards
             /\ ret'.post \in DOMAIN boards => boards[ret'.post].ownerId # ret'.viewer
       /\ \A t \in Threads :
             /\ (tpc[t] = "idle" /\ tpc'[t] = "boardpatch_save") =>
                   /\ boards' = boards
                   /\ tloc'[t].post \in DOMAIN boards
                   /\ boards[tloc'[t].post].ownerId = tloc'[t].viewer
             /\ (tpc[t] = "boardpatch_save" /\ tpc'[t] = "idle") =>
                   /\ ret'.out[1].ownerId = ret'.viewer
                   /\ ret'.out[1].id = ret'.post
                   /\ boards'[ret'.post] = ret'.out[1]
                   /\ \A k \in DOMAIN boards' \ {ret'.post} :
                         k \in DOMAIN boards /\ boards'[k] = boards[k]]_vars

C33_Witness ==
    /\ ret.op = "HandlePatchBoard" /\ ~ret.found
    /\ ret.viewer = "u2" /\ ret.post = "b1"
    /\ "b1" \in DOMAIN boards /\ boards["b1"].ownerId = "u1"
    /\ boards["b1"].updatedAt = 2 /\ boards["b1"].isPrivate

\* C34: when the write of an edit or a delete issued by user u for post id
\* runs, every post of the list that has another author, and every post with
\* another id, is in the list afterwards exactly as it was, whatever
\* creates, edits and deletes ran between the request's lookup and its write.
C34_OnlyOwnPostTouched ==
    [][\A t \in Threads :
          (tpc[t] = "post_write" /\ tpc'[t] = "idle" /\ tloc[t].op \in {"edit", "delete"}) =>
              \A i \in 1..Len(posts) :
                  (posts[i].author.id # tloc[t].uid \/ posts[i].id # tloc[t].post) =>
                      \E j \in 1..Len(posts') : posts'[j] = posts[i]]_vars

\* C35: whenever UpdateAt or DeleteAt runs for an edit, comment or delete
\* request, the index it is given is inside the post list as it is then.
C35_IndexInRange ==
    [][\A t \in Threads :
          (tpc[t] = "post_write" /\ tpc'[t] = "idle") =>
              (0 <= tloc[t].idx /\ tloc[t].idx < Len(posts))]_vars

\* ------------------------------------------------- concurrent comments
\* two requests in flight on post p1: comments by u1 or u2 on either thread,
\* the author's edit, and likes
NextCommentRace ==
    \/ \E t \in Threads, u \in Users : PostByID(t, "comment", u, "p1")
    \/ PostByID("t2", "edit", "u1", "p1")
    \/ \E t \in Threads : PostWrite(t)
    \/ ToggleLike("p1", "u1")

SpecCommentRace == InitBoardRace /\ [][NextCommentRace]_vars

\* C36: the write of a comment or an edit request keeps every comment that
\* the stored post holds when the write runs: a comment added by another
\* request since this request read the post is still in the post afterwards.
C36_NoCommentLost ==
    [][\A t \in Threads :
          (tpc[t] = "post_write" /\ tpc'[t] = "idle") =>
              \A i \in 1..Len(posts) : \A k \in 1..Len(posts[i].comments) :
                  \E j \in 1..Len(posts') :
                      /\ posts'[j].id = posts[i].id
                      /\ \E l \in 1..Len(posts'[j].comments) :
                            posts'[j].comments[l] = posts[i].comments[k]]_vars

\* --------------------------------------------- Decorate, lock by lock
\* Decorate(p, viewerUID) called by a handler on the stored post p1 it just
\* got back: cp := p and the first DisplayName call (RLock to RUnlock), for
\* the author
DecorateAuthor(t, viewerUID) ==
    /\ tpc[t] = "idle"
    /\ CanRLock(t)
    /\ IndexOf("p1") >= 0
    /\ LET p == posts[IndexOf("p1") + 1] IN
       tloc' = [tloc EXCEPT ![t] =
                   [NoRet EXCEPT !.op = "Decorate", !.viewer = viewerUID, !.post = p.id,
                                 !.idx = 0,
                                 !.out = <<[p EXCEPT !.author = ResolveUser(p.author)]>>]]
    /\ tpc' = [tpc EXCEPT ![t] = "decor_comments"]
    /\ UNCHANGED <<storeVars, ret, mu>>

\* one round of the comment loop: DisplayName (RLock to RUnlock) for the
\* author of the next comment, written into the array cp.Comments shares
\* with the stored post
DecorateComment(t) ==
    /\ tpc[t] = "decor_comments"
    /\ CanRLock(t)
    /\ tloc[t].idx < Len(tloc[t].out[1].comments)
    /\ LET i == tloc[t].idx + 1
           k == IndexOf(tloc[t].post) + 1
           a == ResolveUser(tloc[t].out[1].comments[i].author)
       IN /\ tloc' = [tloc EXCEPT ![t].idx = i, ![t].out[1].comments[i].author = a]
          /\ posts' = IF k >= 1 /\ i <= Len(posts[k].comments)
                      THEN [posts EXCEPT ![k].comments[i].author = a]
                      ELSE posts
    /\ UNCHANGED <<postLikes, profiles, tags, friends, dmVars, ret, mu, tpc>>

\* after the loop: RLock, set := s.postLikes[cp.ID], RUnlock.  set is nil
\* when the post has no like-set, else it is the map the store holds
DecorateLikes(t) ==
    /\ tpc[t] = "decor_comments"
    /\ CanRLock(t)
    /\ tloc[t].idx = Len(tloc[t].out[1].comments)
    /\ tloc' = [tloc EXCEPT ![t].isNil = (tloc[t].post \notin DOMAIN postLikes)]
    /\ tpc' = [tpc EXCEPT ![t] = "decor_count"]
    /\ UNCHANGED <<storeVars, ret, mu>>

\* cp.LikeCount = len(set), read with no lock held
DecorateCount(t) ==
    /\ tpc[t] = "decor_count"
    /\ tloc' = [tloc EXCEPT ![t].out[1].likeCount =
                   IF tloc[t].isNil THEN 0
                   ELSE Cardinality(LikeSet(postLikes, tloc[t].post))]
    /\ tpc' = [tpc EXCEPT ![t] = "decor_liked"]
    /\ UNCHANGED <<storeVars, ret, mu>>

\* _, liked := set[viewerUID], read with no lock held, and the return
DecorateLiked(t) ==
    /\ tpc[t] = "decor_liked"
    /\ ret' = [tloc[t] EXCEPT !.idx = -1, !.isNil = FALSE,
                  !.out[1].likedByMe =
                      /\ ~tloc[t].isNil
                      /\ tloc[t].viewer \in LikeSet(postLikes, tloc[t].post)]
    /\ tpc' = [tpc EXCEPT ![t] = "idle"]
    /\ tloc' = [tloc EXCEPT ![t] = NoRet]
    /\ UNCHANGED <<storeVars, mu>>

\* one post p1 of u1 with a comment of u1; thread t1 decorates it while the
\* profile of u1 is edited and u1 likes and unlikes the post
NextDecorRace ==
    \/ \E p \in PostInputs :
         /\ p.id = "p1" /\ p.comments # <<>>
         /\ posts = <<>>
         /\ Create(p)
    \/ \E p \in DecorProfiles : UpsertProfile(p)
    \/ ToggleLike("p1", "u1")
    \/ \E v \in Viewers : DecorateAuthor("t1", v)
    \/ DecorateComment("t1")
    \/ DecorateLikes("t1")
    \/ DecorateCount("t1")
    \/ DecorateLiked("t1")

SpecDecorRace == Init /\ [][NextDecorRace]_vars

\* C31: in a post that Decorate returns, the author and every comment author
\* with the same user id have the same name, and likeCount and likedByMe are
\* those of one like-set: a post the viewer likes has at least one like, and
\* a post every user likes is liked by a viewer who is a user.
C31_OneSnapshot ==
    ret.op = "Decorate" =>
        LET p == ret.out[1] IN
        /\ \A i \in 1..Len(p.comments) :
              p.comments[i].author.id = p.author.id =>
                  p.comments[i].author.name = p.author.name
        /\ \A i, j \in 1..Len(p.comments) :
              p.comments[i].author.id = p.comments[j].author.id =>
                  p.comments[i].author.name = p.comments[j].author.name
        /\ \E set \in SUBSET Users :
              /\ p.likeCount = Cardinality(set)
              /\ p.likedByMe = (ret.viewer \in set)

\* ------------------------------------- GET /conversations/{id}/messages
\* handleFetchMessages up to its test: GetConversation (RLock to RUnlock)
\* and the membership test, 404 on a miss.  The requests drawn have no
\* after, before or limit
FetchCheck(t, uid, convID) ==
    /\ tpc[t] = "idle"
    /\ mu.w = "none"
    /\ IF /\ convID \in DOMAIN conversations
          /\ containsString(conversations[convID].memberIds, uid)
       THEN /\ tpc' = [tpc EXCEPT ![t] = "fetch_list"]
            /\ tloc' = [tloc EXCEPT ![t] =
                           [NoRet EXCEPT !.op = "handleFetchMessages", !.viewer = uid,
                                         !.post = convID]]
            /\ ret' = ret
       ELSE /\ ret' = [NoRet EXCEPT !.op = "handleFetchMessages", !.viewer = uid,
                                    !.post = convID]
            /\ UNCHANGED <<tpc, tloc>>
    /\ UNCHANGED <<storeVars, mu>>

\* msgs := app.Store.ListMessages(convID, after, before, limit), a second
\* RLock section, and the answer
FetchList(t) ==
    /\ tpc[t] = "fetch_list"
    /\ mu.w = "none"
    /\ \E msgs \in SortSlice(SeqOf({messages[k] : k \in {id \in DOMAIN messages :
                       /\ messages[id].conversationId = tloc[t].post
                       /\ ~messages[id].deleted
                       /\ InWindow(parseISO(messages[id].createdAt), 0, 0)}}),
                   "msg") :
          ret' = [tloc[t] EXCEPT !.found = TRUE, !.out = msgs]
    /\ tpc' = [tpc EXCEPT ![t] = "idle"]
    /\ tloc' = [tloc EXCEPT ![t] = NoRet]
    /\ UNCHANGED <<storeVars, mu>>

\* u1 and u3 each open a conversation with u2, and send to and read from the
\* conversation c_1
NextMsgGate ==
    \/ \E u \in {"u1", "u3"}, nano \in Nanos :
         HandleCreateConversation(u, <<<<"u2">>>>, "T1", nano)
    \/ \E t \in Threads, u \in {"u1", "u3"}, now \in {"T1", "T2"} :
         SendCheck(t, u, "c_1", [type |-> "", text |-> "hi"], now)
    \/ \E t \in Threads : SendSave(t)
    \/ \E t \in Threads, u \in {"u1", "u3"} : FetchCheck(t, u, "c_1")
    \/ \E t \in Threads : FetchList(t)

SpecMsgGate == InitFriends /\ [][NextMsgGate]_vars

\* C39: the fetch handler answers messages of conversation c only to a
\* viewer who is among c's members when the messages are read, and answers
\* none when the test fails; and when SaveMessage runs for a send request,
\* the sender is among the members of the stored conversation.
C39_MembersOnly ==
    [][\A t \in Threads :
          /\ (tpc[t] = "fetch_list" /\ tpc'[t] = "idle" /\ ret'.out # <<>>) =>
                /\ ret'.post \in DOMAIN conversations
                /\ containsString(conversations[ret'.post].memberIds, ret'.viewer)
          /\ (ret'.op = "handleFetchMessages" /\ ~ret'.found) => ret'.out = <<>>
          /\ (tpc[t] = "send_save" /\ tpc'[t] = "idle") =>
                /\ tloc[t].arg[1].conversationId \in DOMAIN conversations
                /\ containsString(conversations[tloc[t].arg[1].conversationId].memberIds,
                                  tloc[t].arg[1].senderId)]_vars

\* ------------------------------------------ POST /posts, save by save
\* app.Store.Create(p), from Lock() to Unlock(); the handler goes on to
\* SavePosts
SaveCreate(t, p) ==
    /\ tpc[t] = "idle"
    /\ CanLock(t)
    /\ posts' = <<p>> \o posts
    /\ tpc' = [tpc EXCEPT ![t] = "save_marshal"]
    /\ tloc' = [tloc EXCEPT ![t] = [NoRet EXCEPT !.op = "SavePosts", !.post = p.id]]
    /\ UNCHANGED <<postLikes, profiles, tags, friends, dmVars, ret, mu>>

\* SavePosts takes no lock.  writeJSONFile, first half: json.MarshalIndent
\* turns s.posts as it is now into the bytes b
SaveMarshal(t) ==
    /\ tpc[t] = "save_marshal"
    /\ tloc' = [tloc EXCEPT ![t].out = posts]
    /\ tpc' = [tpc EXCEPT ![t] = "save_write"]
    /\ UNCHANGED <<storeVars, ret, mu>>

\* writeJSONFile, second half: os.WriteFile(path, b, 0o644) replaces the
\* content of the file by b and succeeds; ret.out is what the file holds
\* from here on, until the next write
SaveWrite(t) ==
    /\ tpc[t] = "save_write"
    /\ ret' = tloc[t]
    /\ tpc' = [tpc EXCEPT ![t] = "idle"]
    /\ tloc' = [tloc EXCEPT ![t] = NoRet]
    /\ UNCHANGED <<storeVars, mu>>

\* create requests of posts with fresh ids, on two threads
NextSaveRace ==
    \/ \E t \in Threads, p \in PostInputs :
         /\ Len(posts) < MaxPosts
         /\ \A i \in 1..Len(posts) : posts[i].id # p.id
         /\ SaveCreate(t, p)
    \/ \E t \in Threads : SaveMarshal(t)
    \/ \E t \in Threads : SaveWrite(t)

SpecSaveRace == Init /\ [][NextSaveRace]_vars

\* C37: once every request has returned, each having changed the post list
\* and then saved it without a write failure, the post snapshot file holds
\* the post list as it is in memory.
C37_FileIsMemory ==
    ((\A t \in Threads : tpc[t] = "idle") /\ ret.op = "SavePosts") => ret.out = posts

====
